---- MODULE Spec2Model ----
(***************************************************************************)
(* Simulation & risk engine of varlytics-be.                               *)
(*                                                                         *)
(*  - OptimizedSimulationBatch (optimized_batch_service.py): one shared    *)
(*    data fetch, a per-batch cache of fitted models, the catalogue tasks  *)
(*    run on a thread pool and collected with as_completed.                *)
(*  - run_all_simulations / run_all_simulations_sequential                 *)
(*    (simulations_service.py): the registry strategies, one fetch per     *)
(*    model.                                                               *)
(*  - calculate_portfolio_metrics (portfolio_service.py): concurrent       *)
(*    per-holding fetches, value weights, report.                          *)
(*                                                                         *)
(* Threads are modelled at the granularity of their accesses to shared     *)
(* state: a step of a task is the code between two such accesses.          *)
(* Real-valued quantities are exact (integers, or fractions kept as        *)
(* numerator and denominator); floating-point rounding is not modelled.    *)
(***************************************************************************)
EXTENDS Integers, Sequences, FiniteSets, TLC

\* ---------------------------------------------------------------- bounds
\* Largest number of catalogue entries one modelled run submits.
MaxTasks == 2
\* Largest max_workers a caller passes.
MaxWorkers == 2
\* Calls of _fetch_data modelled after the one run-all makes.
MaxFetchCalls == 1
\* Longest holdings list of a portfolio request.
MaxHoldings == 3
MaxPaths == 3
MaxCallers == 2    \* threads calling get_vix_value
MaxVixCalls == 3   \* get_vix_value calls in one behaviour
MaxClock == 48     \* hours the clock runs
MaxDays == 2       \* num_days of a simulated price matrix
MaxTouchDays == 4  \* num_days of a target-touch report
MaxTouchPaths == 6 \* num_simulations of a target-touch report

None == "None"

\* ------------------------------------------------------------- catalogue
Entry(n, r, d, s) == [name |-> n, runner |-> r, dist |-> d, skew |-> s]

\* The tasks dict of run_all_simulations_optimized, in insertion order
\* (SIMULATION_REGISTRY lists the same names in the same order).
\* skew is in tenths: -0.1 -> -1, -2 -> -20, -1.5 -> -15.
Catalogue ==
  << Entry("GARCH-N", "garch", "normal", 0),
     Entry("GARCH-T", "garch", "t", 0),
     Entry("GARCH-GED", "garch", "ged", 0),
     Entry("GARCH-SKEWED-N", "garch", "normal", -1),
     Entry("GARCH-SKEWED-T", "garch", "t", -20),
     Entry("GARCH-SKEWED-GED", "garch", "ged", -15),
     Entry("EGARCH-N", "egarch", "normal", 0),
     Entry("EGARCH-T", "egarch", "t", 0),
     Entry("EGARCH-GED", "egarch", "ged", 0),
     Entry("EGARCH-SKEWED-N", "egarch", "normal", -1),
     Entry("EGARCH-SKEWED-T", "egarch", "t", -20),
     Entry("EGARCH-SKEWED-GED", "egarch", "ged", -15),
     Entry("GJR-GARCH-N", "gjr", "normal", 0),
     Entry("GJR-GARCH-T", "gjr", "t", 0),
     Entry("GJR-GARCH-GED", "gjr", "ged", 0),
     Entry("GJR-GARCH-SKEWED-N", "gjr", "normal", -1),
     Entry("GJR-GARCH-SKEWED-T", "gjr", "t", -20),
     Entry("GJR-GARCH-SKEWED-GED", "gjr", "ged", -15),
     Entry("HISTORICAL", "historical", "none", 0),
     Entry("MONTE-CARLO", "monte_carlo", "none", 0),
     Entry("RISK-METRICS", "risk_metrics", "none", 0),
     Entry("SIMPLE-VARIANCE", "simple_variance", "none", 0) >>

TaskIds == 1..Len(Catalogue)
NameOf(t) == Catalogue[t].name
CatalogueNames == {NameOf(t) : t \in TaskIds}
Parametric(t) == Catalogue[t].runner \in {"garch", "egarch", "gjr"}

\* The sub-dictionaries of the catalogue a modelled run submits.
SubCatalogues == {S \in SUBSET TaskIds : Cardinality(S) \in 1..MaxTasks}

\* The vol and o arguments each run_*_simulation passes to _fit_model.
VolOf(runner) == IF runner = "egarch" THEN "EGARCH" ELSE "GARCH"
OOf(runner) == IF runner = "gjr" THEN 1 ELSE 0
\* 'normal' if dist == 'normal' else dist
DistArg(dist) == IF dist = "normal" THEN "normal" ELSE dist

\* cache_key = f"{vol}_{dist}_{o}"
CacheKey(vol, dist, o) == <<vol, dist, o>>
\* Mutant of KeyOf: the skew offset of the entry is part of the key.
KeyOfWithSkew(t) ==
  <<VolOf(Catalogue[t].runner), DistArg(Catalogue[t].dist),
    OOf(Catalogue[t].runner), Catalogue[t].skew>>
KeyOf(t) ==
  CacheKey(VolOf(Catalogue[t].runner), DistArg(Catalogue[t].dist),
           OOf(Catalogue[t].runner))

\* Mutant of ShockGenerator: GED shocks come from a GED sampler.
ShockGeneratorNativeGed(dist, skew) ==
  CASE dist = "normal" -> IF skew # 0 THEN "normal_minus_skew_abs" ELSE "normal"
    [] dist = "t"      -> IF skew # 0 THEN "skewnorm" ELSE "student_t"
    [] dist = "ged"    -> IF skew # 0 THEN "skew_ged" ELSE "ged"
    [] OTHER           -> "normal"

\* The shock branch of run_garch_simulation (the EGARCH and GJR runners
\* repeat it line for line).
ShockGenerator(dist, skew) ==
  CASE dist = "normal" -> IF skew # 0 THEN "normal_minus_skew_abs" ELSE "normal"
    [] dist = "t"      -> IF skew # 0 THEN "skewnorm" ELSE "student_t"
    [] dist = "ged"    -> IF skew # 0 THEN "skewnorm" ELSE "normal"
    [] OTHER           -> "normal"

\* fitted.params of a fit: with or without an entry 'nu'.
FitParams == {[omega |-> 1, nu |-> 5], [omega |-> 1]}
\* fitted.params.get('nu', 10)
Nu(params) == IF "nu" \in DOMAIN params THEN params.nu ELSE 10
\* The generator with its arguments: skew (in tenths) for
\* shocks - skew * np.abs(shocks) and skewnorm.rvs(skew, ...), df for
\* student_t.rvs(df=nu, ...).
Shocks(dist, skew, params) ==
  LET law == ShockGenerator(dist, skew) IN
    [law |-> law,
     skew |-> IF law \in {"normal_minus_skew_abs", "skewnorm"} THEN skew ELSE 0,
     df |-> IF law = "student_t" THEN Nu(params) ELSE 0]

\* What a task returns: the statistics of the paths it simulated, fixed by
\* its model, the fit it used and the position of the shared random stream
\* its shocks were drawn at.
Statistics(t, key, z) ==
  [model |-> NameOf(t), fit |-> key,
   shocks |-> ShockGenerator(Catalogue[t].dist, Catalogue[t].skew),
   stream |-> z]

\* str(e) of the exception task t raised in step `at`.
Message(t, at) == [raised_by |-> NameOf(t), at |-> at]
NoException == [raised_by |-> None, at |-> None]
ErrorResult(msg) == [error |-> msg]

\* ------------------------------------------------------------- variables
VARIABLES
  op,             \* the operation in progress: "none", "optimized", ...
  \* OptimizedSimulationBatch fields
  hist, log_returns, last_price, vix_value, fitted_models,
  \* the process-wide random generator (np.random): position in its stream
  rng,
  \* run-all: main thread, pool and futures
  bpc,            \* "idle", "pool", "loop", "returned", "raised"
  exc,            \* the exception the run-all call raised, or None
  tasks,          \* ids of the submitted catalogue entries
  max_workers,
  tpc,            \* per task: "none", "queued", running steps, "finished", "collected"
  tfit,           \* per task: the fitted object its _fit_model call returned
  outcome,        \* per task: what its function did, Ok(value) or Err(message)
  tres,           \* per task: what its future holds
  results,        \* the results dict
  \* history
  fetchCalls,     \* calls of _fetch_data
  histFetches,    \* stock.history(period="5y") calls made by _fetch_data
  vixCalls,       \* get_vix_value calls made by _fetch_data
  fitRuns,        \* arch_model(...).fit runs
  order,          \* names in the order their futures were collected
  \* calculate_portfolio_metrics
  holdings,       \* the request: a sequence of [symbol, quantity]
  detailed,       \* TRUE when called through calculate_portfolio_var_detailed
  quotes,         \* the data collaborator: symbol -> last close, or NoData
  ppc,            \* "idle", "fetching", "returned", "raised"
  fpc,            \* per holding: "queued", "done", "collected"
  fres,           \* per holding: what its fetch future holds
  stock_data,     \* symbol -> [quantity, current_price]
  total_value, weights,
  computed,       \* the quantities of the report computed so far
  report,         \* the returned dict, or NoReport
  perr,           \* the exception the request raised
  \* calculate_portfolio_metrics: arguments, collaborator state, pipeline
  request,        \* num_days, confidence_level (per mille), include_garch
  histories,      \* per symbol: the price history the data source holds
  rows,           \* len(returns_df) after dropna, once computed
  garch,          \* the optional GARCH step: "none", "ok", "failed"
  benchmark,      \* what the ^NSEI fetch of step 7 answered
  result,         \* the dict calculate_portfolio_metrics returned
  metricsCalls,   \* calls of calculate_portfolio_metrics
  stockFetches,   \* calls of fetch_stock_data
  \* _calculate_statistics
  final_prices,   \* the terminal prices of the simulated paths
  statistics,     \* the dict _calculate_statistics returned
  \* the HTTP endpoints
  api,            \* the request: endpoint, parameters, whether data exists
  apc,            \* "idle", "received", "accepted", "responded"
  status,         \* the HTTP status of the response
  serviceCalls,   \* service functions the handler has invoked
  \* utils/vix_cache.py
  vix_cache,      \* the module-level dict: value, last_updated
  clock,          \* datetime.utcnow(), in hours
  vpc,            \* per caller: "idle", "entered", "hit", "fetching", ...
  vnow,           \* per caller: its local `now`
  vseen,          \* per caller: the cache as its check read it
  latest_vix,     \* per caller: its local latest_vix
  vret,           \* per caller: what its last call returned
  upstreamFetches,\* yf.Ticker(symbol).history calls
  cacheWrites,    \* completed writes of value and last_updated
  vixRequests,    \* calls of get_vix_value
  quietUpdated,   \* last_updated when no call was last in progress
  \* the path simulators
  simulator,      \* the call: kind, last_price, num_days, num_simulations,
                  \* and per day and path the exponent of the step return
  price_paths,    \* the matrix price_paths, one row per day
  \* the target-touch report of the specialty services
  touch,          \* last_price, num_days, num_simulations, simulation_array
  final_inference, \* the six entries of summary["final_inference"]
  \* steps 5.2 and 5.4 of calculate_portfolio_metrics on a return series
  shortfall       \* portfolio_returns, the arguments, var_index,
                  \* cvar_threshold, the returns selected, var_results

batchVars == <<hist, log_returns, last_price, vix_value, fitted_models>>
poolVars == <<bpc, exc, tasks, max_workers, tpc, tfit, outcome, tres, results, order>>
countVars == <<fetchCalls, histFetches, vixCalls, fitRuns>>
runAllVars == <<batchVars, rng, poolVars, countVars>>
pipeVars == <<request, histories, rows, garch, benchmark, result,
              metricsCalls, stockFetches>>
portVars == <<holdings, detailed, quotes, ppc, fpc, fres, stock_data,
              total_value, weights, computed, report, perr, pipeVars>>
statVars == <<final_prices, statistics>>
apiVars == <<api, apc, status, serviceCalls>>
vixVars == <<vix_cache, clock, vpc, vnow, vseen, latest_vix, vret,
             upstreamFetches, cacheWrites, vixRequests, quietUpdated>>
pathVars == <<simulator, price_paths>>
touchVars == <<touch, final_inference>>
tailVars == <<shortfall>>
auxVars == <<vixVars, pathVars, touchVars, tailVars>>
edgeVars == <<statVars, apiVars, auxVars>>
vars == <<op, runAllVars, portVars, edgeVars>>

NoData == 0
NoReport == [returned |-> FALSE]
NoStatistics == [returned |-> FALSE]
NoApiRequest ==
  [endpoint |-> "none", num_simulations |-> 0, num_days |-> 0,
   confidence_level |-> 0, has_data |-> FALSE]
NoRequest == [num_days |-> 0, confidence_level |-> 0, include_garch |-> FALSE]

\* A price history (the DataFrame of stock.history): closing prices on the
\* dates first..last; the close-to-close return, in basis points, is `even`
\* on even dates and `odd` on odd dates. first > last is an empty frame.
History(f, l, e, o) == [first |-> f, last |-> l, even |-> e, odd |-> o]
EmptyHistory == History(1, 0, 0, 0)
NoBenchmark == [raises |-> FALSE, hist |-> EmptyHistory]

\* vix_cache["last_updated"]: None, or the hour of the writing call.
NotUpdated == [set |-> FALSE, at |-> 0]
UpdatedAt(t) == [set |-> TRUE, at |-> t]
EmptyCache == [value |-> None, last_updated |-> NotUpdated]
Callers == 1..MaxCallers
NotReturned == "NotReturned"

NoSimulator ==
  [kind |-> "none", last_price |-> 0, num_days |-> 0, num_simulations |-> 0,
   exponents |-> <<>>]

NoTouch ==
  [last_price |-> 0, num_days |-> 0, num_simulations |-> 0,
   simulation_array |-> <<>>]

NoShortfall ==
  [called |-> FALSE, computed |-> FALSE, raised |-> FALSE,
   portfolio_returns |-> [ret |-> <<0, 0>>, cnt |-> <<0, 0>>],
   confidence_level |-> 0, total_value |-> 0, num_days |-> 0,
   var_index |-> 0, cvar_threshold |-> 0, selected |-> 0,
   var_results |-> <<>>]

Seed == 0
VixValues == {None, "vix"}

Init ==
  /\ op = "none"
  /\ hist = None /\ log_returns = None /\ last_price = None
  /\ vix_value = None /\ fitted_models = <<>>
  /\ rng = Seed
  /\ bpc = "idle" /\ exc = NoException /\ tasks = {} /\ max_workers = 0
  /\ tpc = <<>> /\ tfit = <<>> /\ outcome = <<>> /\ tres = <<>>
  /\ results = <<>> /\ order = <<>>
  /\ fetchCalls = 0 /\ histFetches = 0 /\ vixCalls = 0 /\ fitRuns = 0
  /\ holdings = <<>> /\ detailed = FALSE /\ quotes = <<>>
  /\ ppc = "idle" /\ fpc = <<>> /\ fres = <<>>
  /\ stock_data = <<>> /\ total_value = 0 /\ weights = <<>>
  /\ computed = {} /\ report = NoReport /\ perr = NoException
  /\ request = NoRequest /\ histories = <<>> /\ rows = 0 /\ garch = "none"
  /\ benchmark = NoBenchmark /\ result = NoReport /\ metricsCalls = 0
  /\ stockFetches = 0
  /\ final_prices = <<>> /\ statistics = NoStatistics
  /\ api = NoApiRequest /\ apc = "idle" /\ status = 0 /\ serviceCalls = 0
  /\ vix_cache = EmptyCache /\ clock = 0
  /\ vpc = [c \in Callers |-> "idle"] /\ vnow = [c \in Callers |-> 0]
  /\ vseen = [c \in Callers |-> EmptyCache]
  /\ latest_vix = [c \in Callers |-> None]
  /\ vret = [c \in Callers |-> NotReturned]
  /\ upstreamFetches = 0 /\ cacheWrites = 0 /\ vixRequests = 0
  /\ quietUpdated = NotUpdated
  /\ simulator = NoSimulator /\ price_paths = <<>>
  /\ touch = NoTouch /\ final_inference = <<>>
  /\ shortfall = NoShortfall

\* ------------------------------------------------------------ _fetch_data
\* The histories the data collaborator can answer with: an index symbol has
\* one ticker, a stock symbol an .NS and a .BO ticker; `avail` are the
\* tickers whose history is not empty.
Markets ==
  {[is_index |-> TRUE, avail |-> a] : a \in SUBSET {"IDX"}}
    \cup {[is_index |-> FALSE, avail |-> a] : a \in SUBSET {"NS", "BO"}}

\* The ticker whose history _fetch_data keeps, or None.
FetchedFrom(m) ==
  IF m.is_index
    THEN IF "IDX" \in m.avail THEN "IDX" ELSE None
    ELSE IF "NS" \in m.avail THEN "NS"
         ELSE IF "BO" \in m.avail THEN "BO" ELSE None

\* The number of stock.history calls of one fetch sequence.
FetchAttempts(m) ==
  IF m.is_index THEN 1 ELSE IF "NS" \in m.avail THEN 1 ELSE 2

\* self.hist['Log Return'].dropna() * 100 and self.hist['Close'].iloc[-1]
LogReturns(h) ==
  CASE h = "IDX" -> "log_returns(IDX)" [] h = "NS" -> "log_returns(NS)"
    [] h = "BO" -> "log_returns(BO)"
LastPrice(h) ==
  CASE h = "IDX" -> "close(IDX)" [] h = "NS" -> "close(NS)"
    [] h = "BO" -> "close(BO)"

\* _fetch_data without its `if self.hist is not None: return`.
FetchDataAlways(m, vix) ==
  /\ fetchCalls' = fetchCalls + 1
  /\ histFetches' = histFetches + FetchAttempts(m)
  /\ IF FetchedFrom(m) = None
       THEN /\ UNCHANGED <<hist, log_returns, last_price, vix_value, vixCalls>>
       ELSE /\ hist' = FetchedFrom(m)
            /\ log_returns' = LogReturns(FetchedFrom(m))
            /\ last_price' = LastPrice(FetchedFrom(m))
            /\ vix_value' = vix
            /\ vixCalls' = vixCalls + 1

\* _fetch_data: the effect on the batch fields and the fetch counters.
\* It raises ValueError exactly when it leaves hist = None.
FetchData(m, vix) ==
  IF hist # None
    THEN /\ fetchCalls' = fetchCalls + 1
         /\ UNCHANGED <<hist, log_returns, last_price, vix_value,
                        histFetches, vixCalls>>
    ELSE FetchDataAlways(m, vix)

\* A later call of _fetch_data on the same batch, after the run that made
\* the first one has ended.
CallFetchData ==
  /\ op = "optimized"
  /\ bpc \in {"returned", "raised"}
  /\ fetchCalls <= MaxFetchCalls
  /\ \E m \in Markets, vix \in VixValues : FetchData(m, vix)
  /\ UNCHANGED op
  /\ UNCHANGED <<edgeVars, portVars, fitted_models, rng, poolVars, fitRuns>>

\* ------------------------------------------- run_all_simulations_optimized
Running(t) == tpc[t] \in {"check", "fit", "draw", "r_fetch", "r_fit", "r_draw"}
RunningTasks == {t \in tasks : Running(t)}

\* What a function did, or what a future holds: nothing yet, a value, or an
\* exception.
Pending == [pending |-> TRUE]
Ok(v) == [ok |-> TRUE, value |-> v]
Err(msg) == [ok |-> FALSE, message |-> msg]
NoKey == <<>>
NoFit == [key |-> NoKey, id |-> 0]

\* The futures dict right after the submit loop over the entries S.
Submit(S, w) ==
  /\ tasks' = S
  /\ max_workers' = w
  /\ tpc' = [t \in S |-> "queued"]
  /\ tfit' = [t \in S |-> NoFit]
  /\ outcome' = [t \in S |-> Pending]
  /\ tres' = [t \in S |-> Pending]

\* raise ValueError(f"No historical data found for symbol '{self.symbol}'.")
NoDataError == [raised_by |-> "_fetch_data", at |-> "fetch"]

\* Step 1, step 2 and the submit loop: the shared fetch, then one future per
\* entry of the tasks dict. A ValueError of _fetch_data propagates.
RunAllOptimized ==
  /\ op = "none"
  /\ bpc = "idle"
  /\ \E m \in Markets, vix \in VixValues : FetchData(m, vix)
  /\ op' = "optimized"
  /\ IF hist' = None
       THEN /\ bpc' = "raised" /\ exc' = NoDataError
            /\ UNCHANGED <<tasks, max_workers, tpc, tfit, outcome, tres>>
       ELSE /\ bpc' = "pool" /\ UNCHANGED exc
            /\ \E S \in SubCatalogues, w \in 1..MaxWorkers : Submit(S, w)
  /\ UNCHANGED <<edgeVars, portVars, fitted_models, rng, results, order, fitRuns>>

\* ThreadPoolExecutor: work items leave the queue in submission order, one
\* per free worker.
Start(t) ==
  /\ bpc = "pool"
  /\ tpc[t] = "queued"
  /\ \A u \in tasks : u < t => tpc[u] # "queued"
  /\ Cardinality(RunningTasks) < max_workers
  /\ tpc' = [tpc EXCEPT ![t] =
       IF op = "optimized" THEN (IF Parametric(t) THEN "check" ELSE "draw")
                           ELSE "r_fetch"]
  /\ UNCHANGED <<edgeVars, portVars, op, batchVars, rng, bpc, exc, tasks, max_workers, tfit,
                 outcome, tres, results, order, countVars>>

\* _fit_model, lines 72-75: the cache lookup.
FitModelLookup(t) ==
  /\ bpc = "pool"
  /\ tpc[t] = "check"
  /\ IF KeyOf(t) \in DOMAIN fitted_models
       THEN /\ tfit' = [tfit EXCEPT ![t] = fitted_models[KeyOf(t)]]
            /\ tpc' = [tpc EXCEPT ![t] = "draw"]
       ELSE /\ tpc' = [tpc EXCEPT ![t] = "fit"]
            /\ UNCHANGED tfit
  /\ UNCHANGED <<edgeVars, portVars, op, batchVars, rng, bpc, exc, tasks, max_workers, outcome,
                 tres, results, order, countVars>>

\* The shared state the next step of a running task reads and writes:
\* the lookup reads the cache entry of its key (line 74), the fit reads
\* log_returns and stores into the cache (lines 77-79), the simulation
\* reads last_price (and hist, for the four classical models) and advances
\* the process-wide generator (np.random.normal, rvs, np.random.choice).
NextReads(t) ==
  CASE tpc[t] = "check" -> {<<"fitted_models", KeyOf(t)>>}
    [] tpc[t] = "fit"   -> {<<"log_returns">>}
    [] tpc[t] = "draw"  -> {<<"hist">>, <<"last_price">>, <<"np.random">>}
    [] OTHER            -> {}
NextWrites(t) ==
  CASE tpc[t] = "fit"   -> {<<"fitted_models", KeyOf(t)>>}
    [] tpc[t] = "draw"  -> {<<"np.random">>}
    [] OTHER            -> {}

\* The object one optimizer run returns: a fresh object for the key.
Fitted(key, n) == [key |-> key, id |-> n]

\* _fit_model, lines 77-81: fit the model and store it in the cache; a fit
\* that raises ends the task, its future holding the exception.
FitModelRun(t) ==
  /\ bpc = "pool"
  /\ tpc[t] = "fit"
  /\ fitRuns' = fitRuns + 1
  /\ \/ /\ fitted_models' =
             (KeyOf(t) :> Fitted(KeyOf(t), fitRuns + 1)) @@ fitted_models
        /\ tfit' = [tfit EXCEPT ![t] = Fitted(KeyOf(t), fitRuns + 1)]
        /\ tpc' = [tpc EXCEPT ![t] = "draw"]
        /\ UNCHANGED <<outcome, tres>>
     \/ /\ outcome' = [outcome EXCEPT ![t] = Err(Message(t, "fit"))]
        /\ tres' = [tres EXCEPT ![t] = Err(Message(t, "fit"))]
        /\ tpc' = [tpc EXCEPT ![t] = "finished"]
        /\ UNCHANGED <<fitted_models, tfit>>
  /\ UNCHANGED <<edgeVars, portVars, op, hist, log_returns, last_price, vix_value, rng, bpc, exc,
                 tasks, max_workers, results, order, fetchCalls, histFetches,
                 vixCalls>>

\* The rest of a run_*_simulation: the shocks drawn from np.random, the
\* paths and _calculate_statistics; or an exception.
Simulate(t) ==
  /\ bpc = "pool"
  /\ tpc[t] = "draw"
  /\ tpc' = [tpc EXCEPT ![t] = "finished"]
  /\ \/ /\ rng' = rng + 1
        /\ outcome' = [outcome EXCEPT ![t] =
             Ok(Statistics(t, IF Parametric(t) THEN tfit[t].key ELSE NoKey, rng))]
     \/ /\ outcome' = [outcome EXCEPT ![t] = Err(Message(t, "simulate"))]
        /\ UNCHANGED rng
  /\ tres' = [tres EXCEPT ![t] = outcome'[t]]
  /\ UNCHANGED <<edgeVars, portVars, op, batchVars, bpc, exc, tasks, max_workers, tfit, results,
                 order, countVars>>

\* The n-th name of the submitted dict, in submission order.
SubmittedName(n) ==
  NameOf(CHOOSE t \in tasks : Cardinality({u \in tasks : u < t}) = n - 1)

\* Mutant of FutureName: the name is looked up by the position at which the
\* future completed instead of by the future.
FutureNameByCompletion(t) == SubmittedName(Len(order) + 1)

\* name = futures[future]
FutureName(t) == NameOf(t)

\* Mutant of OnCompleted: future.result() outside any try, so the exception
\* of a failed task leaves run_all_simulations_optimized.
OnCompletedNoExcept(t) ==
  IF tres[t].ok
    THEN /\ results' = (FutureName(t) :> tres[t].value) @@ results
         /\ tpc' = [tpc EXCEPT ![t] = "collected"]
         /\ order' = Append(order, NameOf(t))
         /\ UNCHANGED <<bpc, exc>>
    ELSE /\ bpc' = "raised" /\ exc' = tres[t].message
         /\ UNCHANGED <<results, tpc, order>>

\* The body of the as_completed loop for the finished future of task t:
\*   try: results[name] = future.result()
\*   except Exception as e: results[name] = {"error": str(e)}
OnCompleted(t) ==
  /\ results' = (FutureName(t) :>
                   (IF tres[t].ok THEN tres[t].value
                                  ELSE ErrorResult(tres[t].message)))
                 @@ results
  /\ tpc' = [tpc EXCEPT ![t] = "collected"]
  /\ order' = Append(order, NameOf(t))
  /\ UNCHANGED <<bpc, exc>>

\* as_completed hands the main thread a finished future.
Collect(t) ==
  /\ bpc = "pool" /\ op = "optimized"
  /\ tpc[t] = "finished"
  /\ OnCompleted(t)
  /\ UNCHANGED <<edgeVars, portVars, op, batchVars, rng, tasks, max_workers, tfit, outcome, tres,
                 countVars>>

\* Mutant of Return: the call returns as soon as every task has finished,
\* collected or not.
ReturnWithoutCollecting ==
  /\ bpc \in {"pool", "loop"}
  /\ \A t \in tasks : tpc[t] \in {"finished", "collected"}
  /\ bpc' = "returned"
  /\ UNCHANGED <<edgeVars, portVars, op, batchVars, rng, exc, tasks, max_workers, tpc, tfit,
                 outcome, tres, results, order, countVars>>

\* The with block (or the sequential loop) ends and results is returned.
Return ==
  /\ bpc \in {"pool", "loop"}
  /\ \A t \in tasks : tpc[t] = "collected"
  /\ bpc' = "returned"
  /\ UNCHANGED <<edgeVars, portVars, op, batchVars, rng, exc, tasks, max_workers, tpc, tfit,
                 outcome, tres, results, order, countVars>>

\* ----------------------------- run_all_simulations, ..._sequential
\* What _run_single_simulation returns for a registry function that did o:
\*   try: return name, func(symbol, num_simulations, num_days)
\*   except Exception as e: return name, {"error": str(e)}
RunSingleSimulation(t, o) ==
  [name |-> NameOf(t),
   result |-> IF o.ok THEN o.value ELSE ErrorResult(o.message)]

\* run_all_simulations: one future per entry of SIMULATION_REGISTRY.
RunAllParallel ==
  /\ op = "none"
  /\ bpc = "idle"
  /\ op' = "parallel"
  /\ bpc' = "pool"
  /\ \E S \in SubCatalogues, w \in 1..MaxWorkers : Submit(S, w)
  /\ UNCHANGED <<edgeVars, portVars, batchVars, rng, exc, results, order, countVars>>

\* A registry function ends with outcome o: its future holds the pair.
RegistryEnd(t, o) ==
  /\ outcome' = [outcome EXCEPT ![t] = o]
  /\ tres' = [tres EXCEPT ![t] = RunSingleSimulation(t, o)]
  /\ tpc' = [tpc EXCEPT ![t] = "finished"]

\* A registry function's own history fetch: no data raises ValueError.
RegistryFetch(t) ==
  /\ bpc = "pool"
  /\ tpc[t] = "r_fetch"
  /\ \/ RegistryEnd(t, Err(Message(t, "fetch")))
     \/ /\ tpc' = [tpc EXCEPT ![t] = IF Parametric(t) THEN "r_fit" ELSE "r_draw"]
        /\ UNCHANGED <<outcome, tres>>
  /\ UNCHANGED <<edgeVars, portVars, op, batchVars, rng, bpc, exc, tasks, max_workers, tfit,
                 results, order, countVars>>

\* A registry function fits its own model: arch_model(...).fit(disp="off").
RegistryFit(t) ==
  /\ bpc = "pool"
  /\ tpc[t] = "r_fit"
  /\ fitRuns' = fitRuns + 1
  /\ \/ RegistryEnd(t, Err(Message(t, "fit")))
     \/ /\ tpc' = [tpc EXCEPT ![t] = "r_draw"]
        /\ UNCHANGED <<outcome, tres>>
  /\ UNCHANGED <<edgeVars, portVars, op, batchVars, rng, bpc, exc, tasks, max_workers, tfit,
                 results, order, fetchCalls, histFetches, vixCalls>>

\* A registry function draws its shocks from np.random and returns its
\* statistics, or raises.
RegistrySimulate(t) ==
  /\ bpc = "pool"
  /\ tpc[t] = "r_draw"
  /\ \/ /\ rng' = rng + 1
        /\ RegistryEnd(t, Ok(Statistics(t,
             IF Parametric(t) THEN KeyOf(t) ELSE NoKey, rng)))
     \/ /\ RegistryEnd(t, Err(Message(t, "simulate")))
        /\ UNCHANGED rng
  /\ UNCHANGED <<edgeVars, portVars, op, batchVars, bpc, exc, tasks, max_workers, tfit, results,
                 order, countVars>>

\* name, result = future.result(); results[name] = result
RegistryCollect(t) ==
  /\ bpc = "pool" /\ op = "parallel"
  /\ tpc[t] = "finished"
  /\ results' = (tres[t].name :> tres[t].result) @@ results
  /\ tpc' = [tpc EXCEPT ![t] = "collected"]
  /\ order' = Append(order, NameOf(t))
  /\ UNCHANGED <<edgeVars, portVars, op, batchVars, rng, bpc, exc, tasks, max_workers, tfit,
                 outcome, tres, countVars>>

RunAllSequential ==
  /\ op = "none"
  /\ bpc = "idle"
  /\ op' = "sequential"
  /\ bpc' = "loop"
  /\ \E S \in SubCatalogues : Submit(S, 1)
  /\ UNCHANGED <<edgeVars, portVars, batchVars, rng, exc, results, order, countVars>>

\* The outcomes of one registry function run to its end, each with the
\* optimizer runs and random draws it made.
RegistryRuns(t) ==
  {[o |-> Err(Message(t, "fetch")), fits |-> 0, draws |-> 0]}
    \cup (IF Parametric(t)
            THEN {[o |-> Err(Message(t, "fit")), fits |-> 1, draws |-> 0]}
            ELSE {})
    \cup {[o |-> Err(Message(t, "simulate")),
           fits |-> IF Parametric(t) THEN 1 ELSE 0, draws |-> 0],
          [o |-> Ok(Statistics(t, IF Parametric(t) THEN KeyOf(t) ELSE NoKey, rng)),
           fits |-> IF Parametric(t) THEN 1 ELSE 0, draws |-> 1]}

\* One iteration of the loop of run_all_simulations_sequential:
\*   try: results[name] = func(symbol, num_simulations, num_days)
\*   except Exception as e: results[name] = {"error": str(e)}
SequentialIteration(t) ==
  /\ bpc = "loop"
  /\ tpc[t] = "queued"
  /\ \A u \in tasks : u < t => tpc[u] # "queued"
  /\ \E r \in RegistryRuns(t) :
       /\ outcome' = [outcome EXCEPT ![t] = r.o]
       /\ results' = (NameOf(t) :>
                        (IF r.o.ok THEN r.o.value ELSE ErrorResult(r.o.message)))
                      @@ results
       /\ fitRuns' = fitRuns + r.fits
       /\ rng' = rng + r.draws
  /\ tpc' = [tpc EXCEPT ![t] = "collected"]
  /\ order' = Append(order, NameOf(t))
  /\ UNCHANGED <<edgeVars, portVars, op, batchVars, bpc, exc, tasks, max_workers, tfit, tres,
                 fetchCalls, histFetches, vixCalls>>

\* ------------------------------------------ calculate_portfolio_metrics
Symbols == {"TCS", "INFY"}
QuantityChoices == {1, 2}
\* Money is counted in thousandths of a rupee, so that the report's
\* round(x, 2) has something to round.
PriceChoices == {1000, 3004}
\* ThreadPoolExecutor(max_workers=10)
PortfolioWorkers == 10
\* if len(returns_df) < 100: raise ValueError("Insufficient historical data ...")
MinObservations == 100
\* if len(common_dates) > 100
BetaMinOverlap == 100

\* What the data source holds for a symbol: nothing, or a last close and a
\* two-year history. The histories give 101, 100 and 100 daily returns; the
\* second and the third share 99 dates.
HistoryMixed == History(1, 102, 100, -150)
HistoryEarly == History(1, 101, 100, -150)
HistoryBull == History(2, 102, 60, 40)
MarketChoices ==
  {[price |-> NoData, hist |-> EmptyHistory]}
    \cup {m \in [price : PriceChoices,
                  hist : {HistoryMixed, HistoryEarly, HistoryBull}] :
            /\ m.hist = HistoryEarly => m.price = 1000
            /\ m.hist = HistoryBull => m.price = 3004}
\* num_days and confidence_level (per mille) of a request, and include_garch.
RequestChoices ==
  {[num_days |-> 1, confidence_level |-> 950, include_garch |-> g] :
     g \in BOOLEAN}
    \cup {[num_days |-> 4, confidence_level |-> 990, include_garch |-> FALSE]}

HoldingLists ==
  UNION {[1..n -> [symbol : Symbols, quantity : QuantityChoices]] :
           n \in 0..MaxHoldings}

\* Exact fractions <<numerator, denominator>> in lowest terms.
RECURSIVE GCD(_, _)
GCD(a, b) == IF b = 0 THEN a ELSE GCD(b, a % b)
Rat(n, d) == <<n \div GCD(n, d), d \div GCD(n, d)>>
RatAdd(x, y) == Rat(x[1] * y[2] + y[1] * x[2], x[2] * y[2])

\* round(n / d) to an integer, ties to even as Python's round does.
RoundDiv(n, d) ==
  LET q == n \div d
      r == n % d
  IN  IF 2 * r > d \/ (2 * r = d /\ q % 2 = 1) THEN q + 1 ELSE q
\* round(x, 2) of an amount in thousandths.
Round2(x) == RoundDiv(x, 10) * 10
\* round(w, 4) of a fraction, in ten-thousandths.
Round4(w) == RoundDiv(w[1] * 10000, w[2])

\* sum(f(k) for k in S) over integers and over fractions.
RECURSIVE Sum(_, _)
Sum(f, S) ==
  IF S = {} THEN 0
  ELSE LET k == CHOOSE x \in S : TRUE IN f[k] + Sum(f, S \ {k})
RECURSIVE RatSum(_, _)
RatSum(f, S) ==
  IF S = {} THEN <<0, 1>>
  ELSE LET k == CHOOSE x \in S : TRUE IN RatAdd(f[k], RatSum(f, S \ {k}))

\* fetch_stock_data(symbol): (symbol, current_price, hist), or ValueError
\* when neither ticker has data.
FetchStockDataResult(sym) ==
  IF quotes[sym] = NoData
    THEN Err([raised_by |-> sym, at |-> "No data found for symbol"])
    ELSE Ok([symbol |-> sym, current_price |-> quotes[sym],
             historical_data |-> histories[sym]])

\* raise ValueError("Holdings list cannot be empty")
EmptyHoldingsError == [raised_by |-> "holdings", at |-> "empty"]
\* raise ValueError(f"Error fetching data for {holding['symbol']}: {str(e)}")
FetchError(sym) == [raised_by |-> sym, at |-> "Error fetching data"]
InsufficientDataError == [raised_by |-> "returns_df", at |-> "insufficient"]

\* A call of calculate_portfolio_metrics, directly or through
\* calculate_portfolio_var_detailed: the empty-list check and the submit loop.
AnalyzePortfolio ==
  /\ op = "none" /\ ppc = "idle"
  /\ op' = "portfolio"
  /\ \E h \in HoldingLists, mk \in [Symbols -> MarketChoices],
        d \in BOOLEAN, rq \in RequestChoices :
       /\ holdings' = h /\ detailed' = d
       /\ quotes' = [sym \in Symbols |-> mk[sym].price]
       /\ histories' = [sym \in Symbols |-> mk[sym].hist]
       \* calculate_portfolio_var_detailed passes include_garch=False
       /\ request' = [rq EXCEPT !.include_garch = rq.include_garch /\ ~d]
       /\ metricsCalls' = metricsCalls + 1
       /\ fpc' = [k \in 1..Len(h) |-> "queued"]
       /\ fres' = [k \in 1..Len(h) |-> Pending]
       /\ IF Len(h) = 0
            THEN ppc' = "raised" /\ perr' = EmptyHoldingsError
            ELSE ppc' = "fetching" /\ UNCHANGED perr
  /\ UNCHANGED <<edgeVars, runAllVars, stock_data, total_value, weights, computed,
                 report, rows, garch, benchmark, result, stockFetches>>

\* A worker runs fetch_stock_data for holding k. The futures still run while
\* an exception waits for the with block to shut the executor down.
FetchStockData(k) ==
  /\ ppc \in {"fetching", "raised"}
  /\ fpc[k] = "queued"
  /\ Cardinality({j \in 1..(k - 1) : fpc[j] = "queued"}) < PortfolioWorkers
  /\ fpc' = [fpc EXCEPT ![k] = "done"]
  /\ fres' = [fres EXCEPT ![k] = FetchStockDataResult(holdings[k].symbol)]
  /\ stockFetches' = stockFetches + 1
  /\ UNCHANGED <<edgeVars, op, runAllVars, holdings, detailed, quotes, ppc, stock_data,
                 total_value, weights, computed, report, perr, request,
                 histories, rows, garch, benchmark, result, metricsCalls>>

\* Mutant of OnFetched: a failed fetch is skipped instead of raised.
OnFetchedSkipFailure(k) ==
  /\ stock_data' =
       IF fres[k].ok
         THEN (fres[k].value.symbol :>
                 [quantity |-> holdings[k].quantity,
                  current_price |-> fres[k].value.current_price,
                  historical_data |-> fres[k].value.historical_data])
              @@ stock_data
         ELSE stock_data
  /\ fpc' = [fpc EXCEPT ![k] = "collected"]
  /\ UNCHANGED <<ppc, perr>>

\* The body of the as_completed loop, lines 88-97, for holding k.
OnFetched(k) ==
  IF fres[k].ok
    THEN /\ stock_data' =
              (fres[k].value.symbol :>
                 [quantity |-> holdings[k].quantity,
                  current_price |-> fres[k].value.current_price,
                  historical_data |-> fres[k].value.historical_data])
              @@ stock_data
         /\ fpc' = [fpc EXCEPT ![k] = "collected"]
         /\ UNCHANGED <<ppc, perr>>
    ELSE /\ ppc' = "raised" /\ perr' = FetchError(holdings[k].symbol)
         /\ UNCHANGED <<stock_data, fpc>>

PortfolioCollect(k) ==
  /\ ppc = "fetching"
  /\ fpc[k] = "done"
  /\ OnFetched(k)
  /\ UNCHANGED <<edgeVars, op, runAllVars, holdings, detailed, quotes, fres,
                 total_value, weights, computed, report, pipeVars>>

Value(sd) == [s \in DOMAIN sd |-> sd[s].quantity * sd[s].current_price]

\* Mutant of TotalValue: the sum runs over the submitted holdings.
TotalValueOfHoldings(sd) ==
  Sum([k \in 1..Len(holdings) |->
         holdings[k].quantity * sd[holdings[k].symbol].current_price],
      1..Len(holdings))

\* total_value = sum(quantity * current_price for data in stock_data.values())
TotalValue(sd) == Sum(Value(sd), DOMAIN sd)

\* weights = {symbol: quantity * current_price / total_value ...}
Weights(sd) == [s \in DOMAIN sd |-> Rat(Value(sd)[s], TotalValue(sd))]

\* hist['Close'].pct_change().dropna(): one return per date after the first.
\* Date sets are ranges [lo, hi]; lo > hi is the empty range.
ReturnDates(h) == [lo |-> h.first + 1, hi |-> h.last]
ReturnOn(h, d) == IF d % 2 = 0 THEN h.even ELSE h.odd
Highest(S) == CHOOSE x \in S : \A y \in S : y <= x
Lowest(S) == CHOOSE x \in S : \A y \in S : x <= y
\* index.intersection of date ranges
Common(R) == [lo |-> Highest({r.lo : r \in R}), hi |-> Lowest({r.hi : r \in R})]
\* len(...) of a date range, and of its even (par = 0) or odd (par = 1) dates
Length(r) == IF r.hi < r.lo THEN 0 ELSE r.hi - r.lo + 1
LengthOf(r, par) ==
  IF r.hi < r.lo THEN 0
  ELSE (r.hi + 2 - par) \div 2 - (r.lo + 1 - par) \div 2

\* Mutant of AlignedDates: rows with a missing instrument are kept.
AlignedDatesKeepingMissing(sd) ==
  [lo |-> Lowest({ReturnDates(sd[sym].historical_data).lo : sym \in DOMAIN sd}),
   hi |-> Highest({ReturnDates(sd[sym].historical_data).hi : sym \in DOMAIN sd})]

\* returns_df = pd.DataFrame(returns_data).dropna(): the dates on which
\* every symbol of stock_data has a return.
AlignedDates(sd) ==
  Common({ReturnDates(sd[sym].historical_data) : sym \in DOMAIN sd})

\* A return series over the date range r: the return on even dates, the
\* return on odd dates, and how many dates of each kind r has.
Series(even, odd, r) ==
  [ret |-> <<odd, even>>, cnt |-> <<LengthOf(r, 1), LengthOf(r, 0)>>]
Kinds == {1, 2}

\* portfolio_returns = sum(returns_df[symbol] * weights[symbol]) on the
\* dates r, kept to the basis point.
PortfolioReturnOn(sd, d) ==
  RoundDiv(Sum([sym \in DOMAIN sd |->
                  Value(sd)[sym] * ReturnOn(sd[sym].historical_data, d)],
               DOMAIN sd),
           TotalValue(sd))
PortfolioReturns(sd, r) ==
  Series(PortfolioReturnOn(sd, 0), PortfolioReturnOn(sd, 1), r)

\* len, sum, mean of the entries of a series whose kind is in K.
Count(f, K) == Sum([k \in Kinds |-> IF k \in K THEN f.cnt[k] ELSE 0], Kinds)
SumOf(f, K) ==
  Sum([k \in Kinds |-> IF k \in K THEN f.cnt[k] * f.ret[k] ELSE 0], Kinds)
MeanOf(f, K) == RoundDiv(SumOf(f, K), Count(f, K))
\* Series.mean() and Series.std() (ddof = 1), kept to the basis point.
Mean(f) == MeanOf(f, Kinds)
\* np.sqrt, rounded down, by bisection on lo..hi.
RECURSIVE SqrtIn(_, _, _)
SqrtIn(n, lo, hi) ==
  IF lo = hi THEN lo
  ELSE LET mid == (lo + hi + 1) \div 2
       IN  IF mid * mid <= n THEN SqrtIn(n, mid, hi) ELSE SqrtIn(n, lo, mid - 1)
ISqrt(n) == SqrtIn(n, 0, IF n < 40000 THEN n ELSE 40000)
Variance(f) ==
  LET mean == Mean(f)
  IN  RoundDiv(Sum([k \in Kinds |->
                      f.cnt[k] * (f.ret[k] - mean) * (f.ret[k] - mean)],
                   Kinds),
               Count(f, Kinds) - 1)
Std(f) == ISqrt(Variance(f))

\* stats.norm.ppf(1 - confidence_level), in thousandths, for the confidence
\* levels 0.90, 0.95, 0.99 and 0.999.
ZScore(c) ==
  CASE c = 900 -> -1282 [] c = 950 -> -1645 [] c = 990 -> -2326
    [] OTHER -> -3090

\* np.sort(values)[idx]
SortedAt(f, idx) ==
  CHOOSE v \in {f.ret[k] : k \in {j \in Kinds : f.cnt[j] > 0}} :
    /\ Count(f, {k \in Kinds : f.ret[k] < v}) <= idx
    /\ Count(f, {k \in Kinds : f.ret[k] <= v}) > idx

\* round(float(total_value * r * np.sqrt(num_days)), 2) for a return r in
\* basis points; num_days is a perfect square in RequestChoices.
Amount(total, r, num_days) == RoundDiv(total * r * ISqrt(num_days), 100000) * 10

\* int((1 - confidence_level) * len(sorted_returns)), a product of doubles.
\* 1 - 0.9 is the double 0.09999999999999998, a relative 2^-52 below a
\* tenth: times a multiple of ten the product rounds to a double below the
\* integer and int() gives one less than the exact floor. 1 - 0.95,
\* 1 - 0.99 and 1 - 0.999 are doubles above the exact difference and the
\* product truncates to the exact floor.
VarIndex(c, n) ==
  LET exact == (1000 - c) * n
  IN  IF c = 900 /\ exact % 1000 = 0 THEN exact \div 1000 - 1
      ELSE exact \div 1000

\* The percentile of the normal draws of step 5.3 lies at the theoretical
\* quantile or a tenth of a standard deviation to either side of it.
DrawnQuantiles(c) == {ZScore(c) - 100, ZScore(c), ZScore(c) + 100}

\* Mutant of VarResults: the shortfall averages the returns at or above the
\* threshold.
VarResultsUpperTail(f, total, rq, zq) ==
  LET threshold == SortedAt(f, VarIndex(rq.confidence_level, Count(f, Kinds)))
  IN  [variance_covariance |->
         Amount(total,
                RoundDiv(1000 * Mean(f) + ZScore(rq.confidence_level) * Std(f),
                         1000),
                rq.num_days),
       historical |-> Amount(total, threshold, rq.num_days),
       monte_carlo |->
         Amount(total, RoundDiv(1000 * Mean(f) + zq * Std(f), 1000),
                rq.num_days),
       expected_shortfall |->
         Amount(total, MeanOf(f, {k \in Kinds : f.cnt[k] > 0 /\ f.ret[k] >= threshold}),
                rq.num_days)]

\* Step 5.1 to 5.4: the four VaR estimates of the series f; zq is the
\* quantile the Monte Carlo draws produced.
VarResults(f, total, rq, zq) ==
  LET threshold == SortedAt(f, VarIndex(rq.confidence_level, Count(f, Kinds)))
  IN  [variance_covariance |->
         Amount(total,
                RoundDiv(1000 * Mean(f) + ZScore(rq.confidence_level) * Std(f),
                         1000),
                rq.num_days),
       historical |-> Amount(total, threshold, rq.num_days),
       monte_carlo |->
         Amount(total, RoundDiv(1000 * Mean(f) + zq * Std(f), 1000),
                rq.num_days),
       expected_shortfall |->
         Amount(total, MeanOf(f, {k \in Kinds : f.cnt[k] > 0 /\ f.ret[k] <= threshold}),
                rq.num_days)]

\* Step 5.5: the GARCH estimate (the forecast variance summed over the
\* horizon is taken to be num_days times the sample variance), or the error
\* string of the except branch.
GarchVar(f, total, rq) ==
  [ok |-> TRUE,
   value |->
     RoundDiv(total * RoundDiv(1000 * Mean(f) * rq.num_days
                                 + ZScore(rq.confidence_level)
                                     * ISqrt(rq.num_days * Variance(f)),
                               1000),
              100000) * 10]
GarchError == [ok |-> FALSE, error |-> "Error: fit"]

\* n / d scaled by 10^k and rounded, one decimal digit at a time.
RECURSIVE ScaledDiv(_, _, _)
ScaledDiv(n, d, k) ==
  IF k = 0 THEN RoundDiv(n, d)
  ELSE (n \div d) * (IF k = 1 THEN 10 ELSE IF k = 2 THEN 100
                     ELSE IF k = 3 THEN 1000 ELSE 10000)
         + ScaledDiv((n % d) * 10, d, k - 1)

\* Step 6: shares of positive and negative returns (ten-thousandths) and
\* the expected gain and loss.
UpDown(f, total, rq) ==
  LET pos == {k \in Kinds : f.cnt[k] > 0 /\ f.ret[k] > 0}
      neg == {k \in Kinds : f.cnt[k] > 0 /\ f.ret[k] < 0}
  IN  [probability_up |-> ScaledDiv(Count(f, pos), Count(f, Kinds), 4),
       probability_down |-> ScaledDiv(Count(f, neg), Count(f, Kinds), 4),
       expected_upside |->
         IF pos # {} THEN Amount(total, MeanOf(f, pos), rq.num_days) ELSE 0,
       expected_downside |->
         IF neg # {} THEN Amount(total, MeanOf(f, neg), rq.num_days) ELSE 0]

\* What the ^NSEI fetch of step 7 can answer: an exception, an empty frame,
\* or a history (101 or 100 daily returns).
BenchmarkChoices ==
  {[raises |-> TRUE, hist |-> EmptyHistory],
   [raises |-> FALSE, hist |-> EmptyHistory],
   [raises |-> FALSE, hist |-> History(1, 102, 50, -40)],
   [raises |-> FALSE, hist |-> History(2, 102, 50, -40)]}

NoBeta == [present |-> FALSE]
\* covariance / market_variance over the dates `common`, in ten-thousandths;
\* np.cov divides by n - 1 and np.var by n.
BetaValue(sd, b, common) ==
  LET n == Length(common)
      f == PortfolioReturns(sd, common)
      m == Series(b.hist.even, b.hist.odd, common)
      fmean == Mean(f)
      mmean == Mean(m)
      cov == Sum([k \in Kinds |->
                    f.cnt[k] * (f.ret[k] - fmean) * (m.ret[k] - mmean)], Kinds)
      var == Sum([k \in Kinds |->
                    m.cnt[k] * (m.ret[k] - mmean) * (m.ret[k] - mmean)], Kinds)
  IN  ScaledDiv(n * cov, (n - 1) * var, 4)

\* Mutant of PortfolioBeta: 100 common dates are enough.
PortfolioBetaFrom100(sd, b) ==
  LET common == Common({AlignedDates(sd), ReturnDates(b.hist)})
  IN  IF b.raises \/ b.hist.first > b.hist.last THEN NoBeta
      ELSE IF Length(common) >= BetaMinOverlap
             THEN [present |-> TRUE, value |-> BetaValue(sd, b, common)]
             ELSE NoBeta

\* Step 7: portfolio_beta, or None when the benchmark fetch raises or is
\* empty or shares 100 dates or fewer with the portfolio returns.
PortfolioBeta(sd, b) ==
  LET common == Common({AlignedDates(sd), ReturnDates(b.hist)})
  IN  IF b.raises \/ b.hist.first > b.hist.last THEN NoBeta
      ELSE IF Length(common) > BetaMinOverlap
             THEN [present |-> TRUE, value |-> BetaValue(sd, b, common)]
             ELSE NoBeta

\* The four fixed stress scenarios, lines 225-230.
StressScenarios(total) ==
  [market_crash_20 |-> RoundDiv(total * 80, 1000) * 10,
   market_crash_30 |-> RoundDiv(total * 70, 1000) * 10,
   market_boom_20 |-> RoundDiv(total * 120, 1000) * 10,
   market_boom_30 |-> RoundDiv(total * 130, 1000) * 10]

VaRMethods ==
  {"variance_covariance", "historical", "monte_carlo", "expected_shortfall"}

\* The result dict of calculate_portfolio_metrics, lines 233-262: f is
\* portfolio_returns, var is var_results, beta is portfolio_beta.
Result(sd, f, rq, var, beta) ==
  LET expected_return == Mean(f) * 252
      \* np.sqrt(252) = 15.8745
      portfolio_volatility == RoundDiv(Std(f) * 15875, 1000)
      updown == UpDown(f, TotalValue(sd), rq)
      base ==
        [returned |-> TRUE,
         total_value |-> Round2(TotalValue(sd)),
         expected_return |-> expected_return,
         portfolio_volatility |-> portfolio_volatility,
         sharpe_ratio |->
           IF portfolio_volatility > 0
             THEN ScaledDiv(expected_return, portfolio_volatility, 4) ELSE 0,
         VaR |-> var,
         confidence_level |-> rq.confidence_level,
         forecast_horizon_days |-> rq.num_days,
         probability_up |-> updown.probability_up,
         probability_down |-> updown.probability_down,
         expected_upside |-> updown.expected_upside,
         expected_downside |-> updown.expected_downside,
         portfolio_composition |->
           [s \in DOMAIN sd |->
              [quantity |-> sd[s].quantity,
               current_price |-> Round2(sd[s].current_price),
               value |-> Round2(Value(sd)[s]),
               weight |-> Round4(Weights(sd)[s])]],
         stress_test |-> StressScenarios(TotalValue(sd))]
  IN  IF beta.present THEN [portfolio_beta |-> beta.value] @@ base ELSE base

\* The fields calculate_portfolio_var_detailed copies, lines 290-299.
DetailedFields ==
  {"total_value", "expected_return", "portfolio_volatility", "VaR",
   "probability_up", "probability_down", "expected_upside",
   "expected_downside"}
\* Mutant of DetailedView: the whole result is passed on.
DetailedViewWhole(r) == r

DetailedView(r) == [k \in DetailedFields \cup {"returned"} |-> r[k]]

\* Mutant of GarchStep: a failed fit is not reported, an estimate is stored
\* all the same.
GarchStepIgnoringFailure(var, f, total, rq, fails) ==
  IF ~rq.include_garch THEN var
  ELSE [garch |-> GarchVar(f, total, rq)] @@ var

\* Step 5.5: var_results gains "garch" when include_garch is set: the
\* estimate, or the error string when the fit or the forecast raises.
GarchStep(var, f, total, rq, fails) ==
  IF ~rq.include_garch THEN var
  ELSE [garch |-> IF fails THEN GarchError ELSE GarchVar(f, total, rq)] @@ var

\* Steps 2 to 9 once every future is collected: total value and weights,
\* the aligned return rows (fewer than 100 raise), the VaR estimates with
\* one set of normal draws, the optional GARCH step, the benchmark fetch and
\* beta, the stress scenarios and the result.
ComputeMetrics ==
  /\ ppc = "fetching"
  /\ \A k \in 1..Len(holdings) : fpc[k] = "collected"
  /\ total_value' = TotalValue(stock_data)
  /\ weights' = Weights(stock_data)
  /\ rows' = Length(AlignedDates(stock_data))
  /\ IF rows' < MinObservations
       THEN /\ ppc' = "raised" /\ perr' = InsufficientDataError
            /\ computed' = {"total_value", "weights"}
            /\ UNCHANGED <<report, result, rng, garch, benchmark>>
       ELSE LET f == PortfolioReturns(stock_data, AlignedDates(stock_data))
            IN  \E zq \in DrawnQuantiles(request.confidence_level),
                   fails \in BOOLEAN, b \in BenchmarkChoices :
                  /\ fails => request.include_garch
                  /\ rng' = rng + 1
                  /\ garch' = IF ~request.include_garch THEN "none"
                              ELSE IF fails THEN "failed" ELSE "ok"
                  /\ benchmark' = b
                  /\ result' =
                       Result(stock_data, f, request,
                              GarchStep(VarResults(f, total_value', request, zq),
                                        f, total_value', request, fails),
                              PortfolioBeta(stock_data, b))
                  /\ report' = IF detailed THEN DetailedView(result')
                                           ELSE result'
                  /\ computed' = {"total_value", "weights", "VaR",
                                  "probability", "stress_test"}
                  /\ ppc' = "returned" /\ UNCHANGED perr
  /\ UNCHANGED <<edgeVars, op, batchVars, poolVars, countVars, holdings, detailed,
                 quotes, fpc, fres, stock_data, request, histories,
                 metricsCalls, stockFetches>>

\* ---------------------------------------------------- _calculate_statistics
\* Terminal prices in thousandths; a batch of 1 to MaxPaths paths.
TerminalPrices == {1000, 1040, 1100, 2000, 2100}
FinalPriceArrays == UNION {[1..n -> TerminalPrices] : n \in 1..MaxPaths}

\* _simulate_paths hands the terminal prices of num_simulations paths on.
SimulatePaths ==
  /\ op = "none"
  /\ op' = "statistics"
  /\ \E a \in FinalPriceArrays : final_prices' = a
  /\ UNCHANGED <<auxVars, runAllVars, portVars, statistics, apiVars>>

SeqSum(a) == Sum(a, 1..Len(a))
MinPrice(a) == Lowest({a[i] : i \in 1..Len(a)})
MaxPrice(a) == Highest({a[i] : i \in 1..Len(a)})

\* Mutant of NearMin: the band lies 5 % below the minimum.
NearMinBelow(a) == {i \in 1..Len(a) : a[i] * 100 <= MinPrice(a) * 95}

\* final_prices <= min_price * 1.05 and final_prices >= max_price * 0.95
NearMin(a) == {i \in 1..Len(a) : a[i] * 100 <= MinPrice(a) * 105}
NearMax(a) == {i \in 1..Len(a) : a[i] * 100 >= MaxPrice(a) * 95}

\* The dict of _calculate_statistics: mean, min, max rounded to 2 decimals
\* (thousandths here), P(min) and P(max) rounded to 4 (ten-thousandths).
CalculateStatisticsOf(a, num_simulations) ==
  [returned |-> TRUE,
   mean |-> RoundDiv(SeqSum(a), Len(a) * 10) * 10,
   min |-> Round2(MinPrice(a)),
   max |-> Round2(MaxPrice(a)),
   p_min |-> ScaledDiv(Cardinality(NearMin(a)), num_simulations, 4),
   p_max |-> ScaledDiv(Cardinality(NearMax(a)), num_simulations, 4)]

CalculateStatistics ==
  /\ op = "statistics"
  /\ statistics = NoStatistics
  /\ statistics' = CalculateStatisticsOf(final_prices, Len(final_prices))
  /\ UNCHANGED <<auxVars, op, runAllVars, portVars, final_prices, apiVars>>

NextStatistics == SimulatePaths \/ CalculateStatistics

\* ------------------------------------------------------- the HTTP endpoints
\* GET /simulations/{symbol}/{simulation_type}, GET /simulations/{symbol}/all
\* with optimized true or false, POST /portfolio/analyze, POST /portfolio/var,
\* GET /varlytics-special/monte-carlo/{symbol} and /egarch-skewed-t/{symbol}.
SimulationEndpoints == {"simulation", "all_optimized", "all_plain"}
PortfolioEndpoints == {"portfolio_analyze", "portfolio_var"}
SpecialEndpoints == {"special_monte_carlo", "special_egarch_skewed_t"}
Endpoints == SimulationEndpoints \cup PortfolioEndpoints \cup SpecialEndpoints

\* Parameter values on both sides of every declared limit; confidence_level
\* is in thousandths.
NumSimulationsChoices == {0, 99, 100, 999, 1000, 10000, 10001, 100000, 100001}
NumDaysChoices == {0, 1, 252, 253, 1000, 1001}
ConfidenceChoices == {899, 900, 995, 999, 1000}

\* A request arrives; only the portfolio endpoints take confidence_level.
Receive ==
  /\ op = "none" /\ apc = "idle"
  /\ op' = "api"
  /\ \E e \in Endpoints, ns \in NumSimulationsChoices, nd \in NumDaysChoices,
        c \in ConfidenceChoices, d \in BOOLEAN :
       /\ e \notin PortfolioEndpoints => c = 995
       /\ api' = [endpoint |-> e, num_simulations |-> ns, num_days |-> nd,
                  confidence_level |-> c, has_data |-> d]
  /\ apc' = "received"
  /\ UNCHANGED <<auxVars, runAllVars, portVars, statVars, status, serviceCalls>>

\* The limits the endpoint declares: Query(ge=100, le=10000) and
\* Query(ge=1, le=1000) on the simulation endpoints, the Field limits of
\* PortfolioAnalysisRequest, none on the specialty endpoints.
Declared(r) ==
  IF r.endpoint \in SimulationEndpoints
    THEN /\ r.num_simulations >= 100 /\ r.num_simulations <= 10000
         /\ r.num_days >= 1 /\ r.num_days <= 1000
  ELSE IF r.endpoint \in PortfolioEndpoints
    THEN /\ r.num_simulations >= 1000 /\ r.num_simulations <= 100000
         /\ r.num_days >= 1 /\ r.num_days <= 252
         /\ r.confidence_level >= 900 /\ r.confidence_level <= 999
  ELSE TRUE

\* FastAPI validates the parameters before the handler body runs: a value
\* outside a declared limit is answered with 422.
Validate ==
  /\ op = "api" /\ apc = "received"
  /\ IF Declared(api)
       THEN apc' = "accepted" /\ UNCHANGED status
       ELSE apc' = "responded" /\ status' = 422
  /\ UNCHANGED <<auxVars, op, runAllVars, portVars, statVars, api, serviceCalls>>

\* What the service function of the endpoint does with the request: the
\* specialty and the single-model functions raise ValueError on non-positive
\* parameters and on a symbol without data, run_all_simulations_optimized and
\* calculate_portfolio_metrics raise ValueError without data, and
\* run_all_simulations returns a map of errors.
ServiceOutcome(r) ==
  IF r.endpoint \in SpecialEndpoints
       /\ (r.num_simulations <= 0 \/ r.num_days <= 0)
    THEN "ValueError"
  ELSE IF r.has_data THEN "returns"
  ELSE IF r.endpoint = "all_plain" THEN "returns"
  ELSE "ValueError"

\* The except clauses of the handlers: the simulation endpoints answer any
\* exception with 500, the portfolio endpoints ValueError with 400, the
\* specialty endpoints ValueError with 404.
StatusOf(e, res) ==
  IF res = "returns" THEN 200
  ELSE IF e \in SimulationEndpoints THEN 500
  ELSE IF e \in PortfolioEndpoints THEN 400
  ELSE 404

\* The handler body: one call of the endpoint's service function, and the
\* response.
Handle ==
  /\ op = "api" /\ apc = "accepted"
  /\ serviceCalls' = serviceCalls + 1
  /\ status' = StatusOf(api.endpoint, ServiceOutcome(api))
  /\ apc' = "responded"
  /\ UNCHANGED <<auxVars, op, runAllVars, portVars, statVars, api>>

NextApi == Receive \/ Validate \/ Handle

\* ------------------------------------------------------ utils/vix_cache.py
\* The module-level dict is shared by every thread of the process: the worker
\* threads of run_all_simulations call get_vix_value from the registry
\* functions, and nothing serialises them. Each caller is a thread; a step is
\* what one thread does between two points where another may run.
TTL == 24
UpstreamVix == {"vix_a", "vix_b"}
UpstreamFailure == "raises"
otherVars ==
  <<runAllVars, portVars, statVars, apiVars, pathVars, touchVars, tailVars>>

\* Mutant of Fresh: a value exactly 24 hours old still counts as fresh.
FreshInclusive(cache, now) ==
  /\ cache.value # None /\ cache.last_updated.set
  /\ now - cache.last_updated.at <= TTL

\* vix_cache["value"] is not None and vix_cache["last_updated"] and
\* now - vix_cache["last_updated"] < timedelta(hours=24)
Fresh(cache, now) ==
  /\ cache.value # None /\ cache.last_updated.set
  /\ now - cache.last_updated.at < TTL

AllIdle(pc) == \A c \in Callers : pc[c] = "idle"

\* What a call leaves behind when it returns v.
Returns(c, v, cache) ==
  /\ vpc' = [vpc EXCEPT ![c] = "idle"]
  /\ vret' = [vret EXCEPT ![c] = v]
  /\ quietUpdated' = IF AllIdle([vpc EXCEPT ![c] = "idle"])
                       THEN cache.last_updated ELSE quietUpdated

\* now = datetime.utcnow()
GetVixValue(c) ==
  /\ op \in {"none", "vix"} /\ op' = "vix"
  /\ vpc[c] = "idle" /\ vixRequests < MaxVixCalls
  /\ vixRequests' = vixRequests + 1
  /\ vpc' = [vpc EXCEPT ![c] = "entered"]
  /\ vnow' = [vnow EXCEPT ![c] = clock]
  /\ vret' = [vret EXCEPT ![c] = NotReturned]
  /\ UNCHANGED <<otherVars, vix_cache, clock, vseen, latest_vix,
                 upstreamFetches, cacheWrites, quietUpdated>>

\* The two if statements. Writers only ever set the two fields, so the reads
\* of lines 17 and 18 decide as one read of the dict at the later of them.
CheckCache(c) ==
  /\ op = "vix" /\ vpc[c] = "entered"
  /\ vseen' = [vseen EXCEPT ![c] = vix_cache]
  /\ vpc' = [vpc EXCEPT ![c] = IF Fresh(vix_cache, vnow[c])
                                 THEN "hit" ELSE "fetching"]
  /\ UNCHANGED <<op, otherVars, vix_cache, clock, vnow, latest_vix, vret,
                 upstreamFetches, cacheWrites, vixRequests, quietUpdated>>

\* return vix_cache["value"]
ReturnCached(c) ==
  /\ op = "vix" /\ vpc[c] = "hit"
  /\ Returns(c, vix_cache.value, vix_cache)
  /\ UNCHANGED <<op, otherVars, vix_cache, clock, vnow, vseen, latest_vix,
                 upstreamFetches, cacheWrites, vixRequests>>

\* Mutant of FetchVix: a failed fetch falls back to the cached value.
FetchVixReturningStale(c) ==
  /\ op = "vix" /\ vpc[c] = "fetching"
  /\ upstreamFetches' = upstreamFetches + 1
  /\ \E q \in UpstreamVix \cup {UpstreamFailure} :
       IF q = UpstreamFailure
         THEN /\ Returns(c, vix_cache.value, vix_cache)
              /\ UNCHANGED latest_vix
         ELSE /\ latest_vix' = [latest_vix EXCEPT ![c] = q]
              /\ vpc' = [vpc EXCEPT ![c] = "fetched"]
              /\ UNCHANGED <<vret, quietUpdated>>
  /\ UNCHANGED <<op, otherVars, vix_cache, clock, vnow, vseen, cacheWrites,
                 vixRequests>>

\* yf.Ticker(symbol).history(period="5d") and float(...iloc[-1]); whatever
\* they raise is caught, printed, and the call returns None.
FetchVix(c) ==
  /\ op = "vix" /\ vpc[c] = "fetching"
  /\ upstreamFetches' = upstreamFetches + 1
  /\ \E q \in UpstreamVix \cup {UpstreamFailure} :
       IF q = UpstreamFailure
         THEN /\ Returns(c, None, vix_cache)
              /\ UNCHANGED latest_vix
         ELSE /\ latest_vix' = [latest_vix EXCEPT ![c] = q]
              /\ vpc' = [vpc EXCEPT ![c] = "fetched"]
              /\ UNCHANGED <<vret, quietUpdated>>
  /\ UNCHANGED <<op, otherVars, vix_cache, clock, vnow, vseen, cacheWrites,
                 vixRequests>>

\* vix_cache["value"] = latest_vix
WriteValue(c) ==
  /\ op = "vix" /\ vpc[c] = "fetched"
  /\ vix_cache' = [vix_cache EXCEPT !.value = latest_vix[c]]
  /\ vpc' = [vpc EXCEPT ![c] = "wrote_value"]
  /\ UNCHANGED <<op, otherVars, clock, vnow, vseen, latest_vix, vret,
                 upstreamFetches, cacheWrites, vixRequests, quietUpdated>>

\* vix_cache["last_updated"] = now; return latest_vix
WriteLastUpdated(c) ==
  /\ op = "vix" /\ vpc[c] = "wrote_value"
  /\ vix_cache' = [vix_cache EXCEPT !.last_updated = UpdatedAt(vnow[c])]
  /\ cacheWrites' = cacheWrites + 1
  /\ Returns(c, latest_vix[c], vix_cache')
  /\ UNCHANGED <<op, otherVars, clock, vnow, vseen, latest_vix,
                 upstreamFetches, vixRequests>>

\* Time passes, twelve hours at a step.
Tick ==
  /\ op = "vix" /\ clock < MaxClock
  /\ clock' = clock + 12
  /\ UNCHANGED <<op, otherVars, vix_cache, vpc, vnow, vseen, latest_vix,
                 vret, upstreamFetches, cacheWrites, vixRequests,
                 quietUpdated>>

NextVix ==
  \/ \E c \in Callers : GetVixValue(c)
  \/ \E c \in Callers : CheckCache(c)
  \/ \E c \in Callers : ReturnCached(c)
  \/ \E c \in Callers : FetchVix(c)
  \/ \E c \in Callers : WriteValue(c)
  \/ \E c \in Callers : WriteLastUpdated(c)
  \/ Tick

NextBatch ==
  \/ CallFetchData
  \/ RunAllOptimized
  \/ \E t \in tasks : Start(t)
  \/ \E t \in tasks : FitModelLookup(t)
  \/ \E t \in tasks : FitModelRun(t)
  \/ \E t \in tasks : Simulate(t)
  \/ \E t \in tasks : Collect(t)
  \/ Return

NextRegistry ==
  \/ RunAllParallel
  \/ RunAllSequential
  \/ \E t \in tasks : RegistryFetch(t)
  \/ \E t \in tasks : RegistryFit(t)
  \/ \E t \in tasks : RegistrySimulate(t)
  \/ \E t \in tasks : RegistryCollect(t)
  \/ \E t \in tasks : SequentialIteration(t)

NextPortfolio ==
  \/ AnalyzePortfolio
  \/ \E k \in DOMAIN fpc : FetchStockData(k)
  \/ \E k \in DOMAIN fpc : PortfolioCollect(k)
  \/ ComputeMetrics

\* ------------------------------------------------------ the path simulators
\* price_paths = last_price * np.cumprod(returns, axis=0), with
\* returns = np.exp(drift + diffusion * shocks) in _simulate_paths and the GBM
\* simulators, and returns = 1 + sampled_returns in the bootstrap.
\*
\* A double is kept by its natural logarithm: Positive(l) is the double
\* exp(l), Zero is 0.0. np.exp and the product of two doubles give 0.0
\* when the exact result lies below the smallest positive double,
\* exp(-745); the exponents here stay far from the largest double.
MinExponent == -745
Zero == [zero |-> TRUE, ln |-> 0]
Positive(l) == [zero |-> FALSE, ln |-> l]
Exp(x) == IF x < MinExponent THEN Zero ELSE Positive(x)
Times(a, b) == IF a.zero \/ b.zero THEN Zero ELSE Exp(a.ln + b.ln)

\* The exponent drift + diffusion * shock of one step, in units of 1: a
\* small loss, a small gain, and a step far in the lower tail.
StepExponents == {-400, -1, 1}
\* ln(last_price)
LogPrices == {0, 7}
\* The closes of the history the bootstrap resamples, by their logarithms;
\* 1 + pct_change is the ratio of two consecutive closes.
HistoryLogCloses == <<7, 6, 7>>
HistoricalExponents ==
  {HistoryLogCloses[i + 1] - HistoryLogCloses[i] :
     i \in 1..(Len(HistoryLogCloses) - 1)}
SimulatorKinds == {"simulate_paths", "monte_carlo", "historical"}

\* The step returns of the call: np.exp(...) of the exponent, or
\* 1 + sampled return.
StepReturn(sim, d, p) ==
  IF sim.kind = "historical" THEN Positive(sim.exponents[d][p])
  ELSE Exp(sim.exponents[d][p])

\* np.cumprod(returns, axis=0)[d - 1, p - 1]
RECURSIVE CumProd(_, _, _)
CumProd(sim, d, p) ==
  IF d = 1 THEN StepReturn(sim, 1, p)
  ELSE Times(CumProd(sim, d - 1, p), StepReturn(sim, d, p))

\* Mutant of PricePaths: the matrix starts with a row holding last_price.
PricePathsFromToday(sim) ==
  [d \in 1..(sim.num_days + 1) |->
     [p \in 1..sim.num_simulations |->
        IF d = 1 THEN Positive(sim.last_price)
        ELSE Times(Positive(sim.last_price), CumProd(sim, d - 1, p))]]

\* price_paths = last_price * np.cumprod(returns, axis=0)
PricePaths(sim) ==
  [d \in 1..sim.num_days |->
     [p \in 1..sim.num_simulations |->
        Times(Positive(sim.last_price), CumProd(sim, d, p))]]

\* A simulator is called: the shocks are drawn with
\* size=(num_days, num_simulations), the bootstrap samples num_days returns
\* for each of num_simulations paths.
RunSimulator ==
  /\ op = "none" /\ op' = "paths"
  /\ \E k \in SimulatorKinds, nd \in 1..MaxDays, ns \in 1..MaxPaths,
        l \in LogPrices :
       \E x \in [1..nd -> [1..ns -> IF k = "historical"
                                       THEN HistoricalExponents
                                       ELSE StepExponents]] :
         simulator' = [kind |-> k, last_price |-> l, num_days |-> nd,
                       num_simulations |-> ns, exponents |-> x]
  /\ UNCHANGED <<runAllVars, portVars, statVars, apiVars, vixVars,
                 touchVars, tailVars, price_paths>>

CumulativeProduct ==
  /\ op = "paths" /\ price_paths = <<>>
  /\ price_paths' = PricePaths(simulator)
  /\ UNCHANGED <<op, runAllVars, portVars, statVars, apiVars, vixVars,
                 touchVars, tailVars, simulator>>

NextPaths == RunSimulator \/ CumulativeProduct

\* ------------------------------------------------ the target-touch report
\* Step 6 of get_egarch_monte_carlo_simulation and simulate_stock_egarch,
\* the same statements in both. Prices are in thousandths, day indices count
\* from 0 as np.argmax does.
TargetPercents == <<-10, -5, -2, 2, 5, 10>>
\* round(last_price * (1 + pct / 100), 2)
PriceTarget(last, pct) == Round2((last * (100 + pct)) \div 100)

\* The shapes a simulated path takes: it stays at last_price, lands exactly
\* on the -10 % target on the first day, is 6 % down on the last day, or is
\* 11 % up on the last day.
PathShapes == {"flat", "down_early", "down_late", "up_late"}
PathOf(shape, last, nd) ==
  [d \in 1..nd |->
     IF shape = "down_early" /\ d = 1 THEN PriceTarget(last, -10)
     ELSE IF shape = "down_late" /\ d = nd THEN (last * 94) \div 100
     ELSE IF shape = "up_late" /\ d = nd THEN (last * 111) \div 100
     ELSE last]
LastPrices == {100000, 200}

\* simulation_df.values: one row per simulated day, one column per path.
SimulateTouchPaths ==
  /\ op = "none" /\ op' = "touch"
  /\ \E last \in LastPrices, nd \in 1..MaxTouchDays, ns \in 1..MaxTouchPaths :
       \E shapes \in [1..ns -> PathShapes] :
         touch' = [last_price |-> last, num_days |-> nd,
                   num_simulations |-> ns,
                   simulation_array |->
                     [d \in 1..nd |->
                        [p \in 1..ns |-> PathOf(shapes[p], last, nd)[d]]]]
  /\ UNCHANGED <<runAllVars, portVars, statVars, apiVars, vixVars, pathVars,
                 tailVars, final_inference>>

\* Mutant of HitMatrix: the comparisons are strict.
HitMatrixStrict(t, target) ==
  [d \in 1..t.num_days |->
     [p \in 1..t.num_simulations |->
        IF target < t.last_price THEN t.simulation_array[d][p] < target
        ELSE t.simulation_array[d][p] > target]]

\* simulation_array <= target if target < last_price, else >= target
HitMatrix(t, target) ==
  [d \in 1..t.num_days |->
     [p \in 1..t.num_simulations |->
        IF target < t.last_price THEN t.simulation_array[d][p] <= target
        ELSE t.simulation_array[d][p] >= target]]

\* np.argmax(hit_matrix, axis=0): the first True index, 0 if there is none.
ArgMax(hm, p) ==
  IF \E d \in 1..Len(hm) : hm[d][p]
    THEN Lowest({d \in 1..Len(hm) : hm[d][p]}) - 1
    ELSE 0
\* hit_matrix.any(axis=0)
WasHit(hm) == {p \in 1..Len(hm[1]) : \E d \in 1..Len(hm) : hm[d][p]}

NoDay == [set |-> FALSE, day |-> 0]
Day(n) == [set |-> TRUE, day |-> n]

\* Mutant of Narrative: the average day is also reported when it is late.
NarrativeAlwaysAverage(hits, days, ns, nd) ==
  IF hits = 0 THEN [suffix |-> "none", average_day_to_hit |-> NoDay]
  ELSE IF 5 * hits >= ns
    THEN [suffix |-> (IF 10 * days <= 7 * nd * hits THEN "average" ELSE "late"),
          average_day_to_hit |-> Day(RoundDiv(days, hits))]
  ELSE [suffix |-> "rarely", average_day_to_hit |-> NoDay]

\* The if / elif / else over probability and avg_day: `hits` paths crossed
\* and their first-hit days sum to `days`; probability >= 20 is
\* 100 * hits / ns >= 20, avg_day <= num_days * 0.7 is days / hits <= 0.7 nd.
Narrative(hits, days, ns, nd) ==
  IF hits = 0 THEN [suffix |-> "none", average_day_to_hit |-> NoDay]
  ELSE IF 5 * hits >= ns /\ 10 * days <= 7 * nd * hits
    THEN [suffix |-> "average",
          average_day_to_hit |-> Day(RoundDiv(days, hits))]
  ELSE IF 5 * hits < ns
    THEN [suffix |-> "rarely", average_day_to_hit |-> NoDay]
  ELSE [suffix |-> "late", average_day_to_hit |-> NoDay]

\* One entry of final_inference; probability_percent is round(probability, 2)
\* in hundredths of a percent.
Inference(t, pct) ==
  LET target == PriceTarget(t.last_price, pct)
      hm == HitMatrix(t, target)
      hit == WasHit(hm)
      days == Sum([p \in hit |-> ArgMax(hm, p)], hit)
      n == Narrative(Cardinality(hit), days, t.num_simulations, t.num_days)
  IN  [target_price |-> target,
       direction |-> IF target < t.last_price THEN "downside" ELSE "upside",
       probability_percent |->
         RoundDiv(Cardinality(hit) * 10000, t.num_simulations),
       average_day_to_hit |-> n.average_day_to_hit,
       suffix |-> n.suffix]

FirstHitProbabilities ==
  /\ op = "touch" /\ final_inference = <<>>
  /\ final_inference' =
       [i \in 1..Len(TargetPercents) |-> Inference(touch, TargetPercents[i])]
  /\ UNCHANGED <<op, runAllVars, portVars, statVars, apiVars, vixVars,
                 pathVars, tailVars, touch>>

NextTouch == SimulateTouchPaths \/ FirstHitProbabilities

\* ------------------------------- historical VaR and expected shortfall
\* Steps 5.2 and 5.4 of calculate_portfolio_metrics on the return series
\* that step 4 hands them: at least 100 portfolio returns, in basis points,
\* as a series of two values and how often each occurs.
ReturnChoices == {-300, -15, 100}
CountChoices == {<<1, 99>>, <<9, 91>>, <<10, 90>>, <<50, 51>>, <<110, 0>>}
\* confidence_level, per mille: the ends of the accepted range, the default
\* and 0.99.
ConfidenceLevels == {900, 950, 990, 999}
\* total_value in thousandths, and num_days (a perfect square).
TotalValueChoices == {1000, 7008}
HorizonChoices == {1, 4}

\* portfolio_returns, total_value and the arguments as they reach step 5.
PortfolioReturnSeries ==
  /\ op = "none" /\ op' = "shortfall"
  /\ \E ret \in [Kinds -> ReturnChoices], cnt \in CountChoices,
        c \in ConfidenceLevels, total \in TotalValueChoices,
        nd \in HorizonChoices :
       shortfall' =
         [NoShortfall EXCEPT
            !.called = TRUE,
            !.portfolio_returns = [ret |-> ret, cnt |-> cnt],
            !.confidence_level = c, !.total_value = total, !.num_days = nd]
  /\ UNCHANGED <<runAllVars, portVars, statVars, apiVars, vixVars, pathVars,
                 touchVars>>

\* Lines 144-162: the sort, var_index, sorted_returns[var_index] (an
\* IndexError past the end), the returns at or below the threshold and the
\* four estimates, with one set of normal draws.
HistoricalVarAndShortfall ==
  /\ op = "shortfall" /\ ~shortfall.computed /\ ~shortfall.raised
  /\ LET f == shortfall.portfolio_returns
         n == Count(f, Kinds)
         idx == VarIndex(shortfall.confidence_level, n)
         rq == [num_days |-> shortfall.num_days,
                confidence_level |-> shortfall.confidence_level,
                include_garch |-> FALSE]
     IN  IF idx >= n
           THEN shortfall' = [shortfall EXCEPT !.raised = TRUE,
                                               !.var_index = idx]
           ELSE \E zq \in DrawnQuantiles(shortfall.confidence_level) :
                  shortfall' =
                    [shortfall EXCEPT
                       !.computed = TRUE,
                       !.var_index = idx,
                       !.cvar_threshold = SortedAt(f, idx),
                       !.selected =
                         Count(f, {k \in Kinds : f.cnt[k] > 0
                                      /\ f.ret[k] <= SortedAt(f, idx)}),
                       !.var_results =
                         VarResults(f, shortfall.total_value, rq, zq)]
  /\ UNCHANGED <<op, runAllVars, portVars, statVars, apiVars, vixVars,
                 pathVars, touchVars>>

NextShortfall == PortfolioReturnSeries \/ HistoricalVarAndShortfall

Next ==
  \/ NextBatch \/ NextRegistry \/ NextPortfolio \/ NextStatistics
  \/ NextApi \/ NextVix \/ NextPaths \/ NextTouch \/ NextShortfall

Spec == Init /\ [][Next]_vars

\* The optimized batch alone.
SpecBatch == Init /\ [][NextBatch]_vars

\* The optimized batch with a pool that keeps its workers busy and tasks
\* that terminate: a step that stays possible is taken.
SpecBatchFair ==
  /\ SpecBatch
  /\ WF_vars(\E t \in tasks : Start(t))
  /\ WF_vars(\E t \in tasks : FitModelLookup(t))
  /\ WF_vars(\E t \in tasks : FitModelRun(t))
  /\ WF_vars(\E t \in tasks : Simulate(t))
  /\ WF_vars(\E t \in tasks : Collect(t))
  /\ WF_vars(Return)

\* _calculate_statistics alone.
SpecStatistics == Init /\ [][NextStatistics]_vars

\* The HTTP endpoints alone.
SpecApi == Init /\ [][NextApi]_vars

\* The target-touch report alone.
SpecTouch == Init /\ [][NextTouch]_vars

\* The path simulators alone.
SpecPaths == Init /\ [][NextPaths]_vars

\* Historical VaR and expected shortfall alone.
SpecShortfall == Init /\ [][NextShortfall]_vars

\* The VIX cache and its callers alone.
SpecVix == Init /\ [][NextVix]_vars

\* The portfolio aggregator alone.
SpecPortfolio == Init /\ [][NextPortfolio]_vars

\* ================================================================ claims
Payload(o) == IF o.ok THEN o.value ELSE ErrorResult(o.message)
Collected == {t \in tasks : tpc[t] = "collected"}
Failed == {t \in tasks : outcome[t] # Pending /\ ~outcome[t].ok}
Succeeded == {t \in tasks : outcome[t] # Pending /\ outcome[t].ok}
\* The number of distinct cache keys among the parametric entries of S.
DistinctFits(S) == Cardinality({KeyOf(t) : t \in {u \in S : Parametric(u)}})
\* The position of t among the submitted tasks, from 0.
Rank(t) == Cardinality({u \in tasks : u < t})

\* C1: whichever tasks raise, a run-all of any of the three strategies never
\* raises because of a task (the only exception it lets out is the shared
\* fetch's, before any task exists), and the map it returns has exactly the
\* submitted names as keys, a failing name mapped to {"error": message of its
\* own exception} and every other name to its own statistics.
Thm_C1_FailureIsolated ==
  /\ bpc = "raised" => (tasks = {} /\ exc = NoDataError)
  /\ bpc # "raised" => exc = NoException
  /\ bpc = "returned" =>
       /\ DOMAIN results = {NameOf(t) : t \in tasks}
       /\ \A t \in Failed : \E at \in {"fetch", "fit", "simulate"} :
            results[NameOf(t)] = ErrorResult(Message(t, at))
       /\ \A t \in Succeeded :
            /\ results[NameOf(t)] = outcome[t].value
            /\ results[NameOf(t)].model = NameOf(t)
       /\ tasks = Failed \cup Succeeded

Wit_C1_MixedOutcome ==
  /\ op = "optimized" /\ bpc = "returned" /\ hist # None
  /\ Failed # {} /\ Succeeded # {}

\* C2: a batch runs the optimizer at most once per distinct
\* (vol, dist, o) of the entries it evaluates (12 for the 18 parametric
\* entries of the whole catalogue), here even when no optimizer run fails.
CE_C2_FitsBounded ==
  (op = "optimized" /\ \A t \in tasks : outcome[t] # Err(Message(t, "fit")))
    => fitRuns <= DistinctFits(tasks)

\* C3: within one batch, the _fit_model calls of any two tasks with the same
\* (vol, dist, o) return the identical fitted object.
CE_C3_SameFittedObject ==
  op = "optimized" =>
    \A t, u \in tasks :
      (KeyOf(t) = KeyOf(u) /\ tfit[t] # NoFit /\ tfit[u] # NoFit)
        => tfit[t] = tfit[u]

\* C4: the data is fetched once per batch. A call of _fetch_data made when
\* hist is already set fetches no history, does not call get_vix_value and
\* leaves hist, log_returns, last_price, vix_value and fitted_models as they
\* were; no step of the pool phase fetches; so a batch makes at most one
\* successful fetch sequence.
Thm_C4_FetchOnce ==
  /\ [][(fetchCalls' # fetchCalls /\ hist # None) =>
          /\ hist' = hist /\ log_returns' = log_returns
          /\ last_price' = last_price /\ vix_value' = vix_value
          /\ fitted_models' = fitted_models
          /\ histFetches' = histFetches /\ vixCalls' = vixCalls]_vars
  /\ [][bpc = "pool" =>
          (histFetches' = histFetches /\ vixCalls' = vixCalls
           /\ fetchCalls' = fetchCalls)]_vars
  /\ [](vixCalls <= 1 /\ (hist # None <=> vixCalls = 1))

Wit_C4_SecondCall ==
  /\ op = "optimized" /\ bpc = "returned"
  /\ fetchCalls = 2 /\ vixCalls = 1 /\ hist # None /\ tasks # {}

\* C5: at every point of the collection, in every completion order, the
\* results map holds exactly the names of the futures collected so far, each
\* with the outcome of the task submitted under that name (optimized and
\* registry strategies alike).
Thm_C5_KeyedByTask ==
  op \in {"optimized", "parallel"} =>
    results = [n \in {NameOf(t) : t \in Collected} |->
                 Payload(outcome[CHOOSE t \in Collected : NameOf(t) = n])]

Wit_C5_OutOfOrder ==
  /\ op = "optimized" /\ bpc = "returned"
  /\ Len(order) = 2 /\ order[1] = SubmittedName(2) /\ order[2] = SubmittedName(1)

\* C6: with a fixed seed and the same data, a run in which no task fails
\* returns the same map whatever the interleaving: every entry's shocks come
\* from the same place of the random stream as in the serial run.
CE_C6_Reproducible ==
  (op = "optimized" /\ bpc = "returned" /\ Failed = {}) =>
    \A t \in tasks : results[NameOf(t)].stream = Seed + Rank(t)

\* C7: in the parallel phase no running task is about to write shared state
\* that another running task is about to read or write.
CE_C7_NoSharedMutableState ==
  (op = "optimized" /\ bpc = "pool") =>
    \A t, u \in RunningTasks :
      t # u => NextWrites(t) \cap (NextReads(u) \cup NextWrites(u)) = {}

Failing == {k \in 1..Len(holdings) : quotes[holdings[k].symbol] = NoData}

\* C8: when the fetch of at least one holding fails, the request never
\* returns a report and computes no total value, weights, VaR estimate or
\* stress scenario, in whatever order the fetches complete; the error it
\* raises names a holding whose fetch failed; calculate_portfolio_var_detailed
\* behaves the same.
Thm_C8_FetchFailureAborts ==
  (op = "portfolio" /\ Failing # {}) =>
    /\ ppc # "returned" /\ report = NoReport
    /\ computed = {} /\ total_value = 0 /\ weights = <<>>
    /\ ~(ppc = "fetching" /\ \A k \in 1..Len(holdings) : fpc[k] = "collected")
    /\ ppc = "raised" =>
         /\ perr.at = "Error fetching data"
         /\ \E k \in Failing : perr.raised_by = holdings[k].symbol

Wit_C8_RaisedAfterPartialData ==
  /\ op = "portfolio" /\ ppc = "raised" /\ perr.at = "Error fetching data"
  /\ detailed /\ stock_data # <<>> /\ Len(holdings) > Cardinality(Failing) + 1

\* C9: the reported total_value is the sum over all submitted holdings of
\* quantity x current_price (rounded to two decimals as the report rounds),
\* also when a symbol is named by several holdings.
CE_C9_TotalOverHoldings ==
  (op = "portfolio" /\ ppc = "returned") =>
    report.total_value =
      Round2(Sum([k \in 1..Len(holdings) |->
                    holdings[k].quantity * quotes[holdings[k].symbol]],
                 1..Len(holdings)))

\* C10: the value weights sum to 1, each is its symbol's
\* quantity x current_price over total_value, and each lies in (0, 1].
Thm_C10_WeightsSumToOne ==
  "weights" \in computed =>
    /\ DOMAIN weights = DOMAIN stock_data
    /\ RatSum(weights, DOMAIN weights) = <<1, 1>>
    /\ \A s \in DOMAIN weights :
         /\ weights[s][1] * total_value =
              weights[s][2] * stock_data[s].quantity * stock_data[s].current_price
         /\ 0 < weights[s][1] /\ weights[s][1] <= weights[s][2]

Wit_C10_TwoSymbolsOneRepeated ==
  /\ ppc = "returned" /\ Cardinality(DOMAIN weights) = 2 /\ Len(holdings) = 3
  /\ \E s \in DOMAIN weights : weights[s] = <<250, 1001>>

\* The stock_data the loop builds when the fetches are collected in
\* submission order: the last holding of a symbol is the one stored.
LastHolding(sym) ==
  CHOOSE k \in 1..Len(holdings) :
    /\ holdings[k].symbol = sym
    /\ \A j \in 1..Len(holdings) : holdings[j].symbol = sym => j <= k
SubmissionOrderData ==
  [sym \in {holdings[k].symbol : k \in 1..Len(holdings)} |->
     [quantity |-> holdings[LastHolding(sym)].quantity,
      current_price |-> quotes[sym], historical_data |-> histories[sym]]]

\* C11: for a fixed holdings list and fixed fetch results, every completion
\* order of the fetches yields the stock_data, total_value and weights that
\* the submission order yields.
CE_C11_CompletionOrderIndependent ==
  (op = "portfolio" /\ "weights" \in computed) =>
    /\ stock_data = SubmissionOrderData
    /\ total_value = TotalValue(SubmissionOrderData)
    /\ weights = Weights(SubmissionOrderData)

\* The dates on which every fetched symbol has a return, counted one by one.
CompleteDates ==
  {d \in 1..Highest({histories[sym].last : sym \in Symbols}) :
     \A sym \in DOMAIN stock_data :
       /\ histories[sym].first < d
       /\ d <= histories[sym].last}

\* C12: once the fetches are collected, the request raises the
\* insufficient-data error exactly when fewer than 100 dates carry a return
\* of every holding; then no VaR estimate exists and nothing is returned,
\* and with 100 or more such dates the request returns.
Thm_C12_InsufficientDataIffBelow100 ==
  (op = "portfolio" /\ "weights" \in computed) =>
    /\ rows = Cardinality(CompleteDates)
    /\ Cardinality(CompleteDates) < 100 =>
         /\ ppc = "raised" /\ perr = InsufficientDataError
         /\ "VaR" \notin computed /\ result = NoReport /\ report = NoReport
    /\ Cardinality(CompleteDates) >= 100 =>
         /\ ppc = "returned" /\ perr = NoException
         /\ VaRMethods \subseteq DOMAIN result.VaR

Wit_C12_EachEnoughTogetherShort ==
  /\ ppc = "raised" /\ perr = InsufficientDataError /\ rows = 99
  /\ \A sym \in DOMAIN stock_data :
       histories[sym].last - histories[sym].first >= 100

\* The series and the total the returned result was computed from.
ReturnedSeries == PortfolioReturns(stock_data, AlignedDates(stock_data))

\* C13: a failing GARCH fit or forecast never fails the request: the result
\* is returned with an error string under VaR["garch"], and the other four
\* estimates are what steps 5.1 to 5.4 computed; VaR has the key "garch"
\* exactly when include_garch is set.
Thm_C13_GarchFailureReported ==
  /\ garch = "failed" =>
       /\ ppc = "returned" /\ perr = NoException /\ result.returned
       /\ result.VaR["garch"] = GarchError
  /\ (op = "portfolio" /\ ppc = "returned") =>
       /\ "garch" \in DOMAIN result.VaR <=> request.include_garch
       /\ request.include_garch <=> garch # "none"
       /\ \E zq \in DrawnQuantiles(request.confidence_level) :
            [m \in VaRMethods |-> result.VaR[m]]
              = VarResults(ReturnedSeries, total_value, request, zq)

Wit_C13_GarchFailed ==
  /\ ppc = "returned" /\ garch = "failed" /\ report = result
  /\ Cardinality(DOMAIN stock_data) = 2

\* The dates the benchmark and the portfolio returns share, one by one.
BenchmarkOverlap ==
  {d \in CompleteDates :
     benchmark.hist.first < d /\ d <= benchmark.hist.last}

\* C14: the result has the key portfolio_beta only when the benchmark fetch
\* answered a non-empty series sharing more than 100 dates with the
\* portfolio returns; when it raised, was empty or shares 100 dates or fewer
\* the key is absent, the request still returns and every other field is
\* what it is with a beta.
Thm_C14_BetaOptional ==
  (op = "portfolio" /\ ppc = "returned") =>
    /\ "portfolio_beta" \in DOMAIN result <=>
         /\ ~benchmark.raises
         /\ benchmark.hist.first <= benchmark.hist.last
         /\ Cardinality(BenchmarkOverlap) > 100
    /\ [k \in DOMAIN result \ {"portfolio_beta"} |-> result[k]]
         = Result(stock_data, ReturnedSeries, request, result.VaR, NoBeta)

Wit_C14_Exactly100Common ==
  /\ ppc = "returned" /\ ~benchmark.raises /\ rows = 101
  /\ Cardinality(BenchmarkOverlap) = 100
  /\ "portfolio_beta" \notin DOMAIN result

\* C15: calculate_portfolio_var_detailed runs the pipeline once (one call of
\* calculate_portfolio_metrics, one fetch per holding, one set of normal
\* draws) and returns exactly the eight fields, each equal to the field of
\* the same name of that one result.
Thm_C15_DetailedIsView ==
  (op = "portfolio" /\ detailed) =>
    /\ metricsCalls = 1
    /\ stockFetches <= Len(holdings)
    /\ rng \in {Seed, Seed + 1}
    /\ ppc = "returned" =>
         /\ stockFetches = Len(holdings)
         /\ rng = Seed + 1
         /\ DOMAIN report \ {"returned"} = DetailedFields
         /\ Cardinality(DetailedFields) = 8
         /\ \A k \in DetailedFields : report[k] = result[k]
         /\ ~request.include_garch

Wit_C15_DetailedReturned ==
  /\ op = "portfolio" /\ detailed /\ ppc = "returned"
  /\ "portfolio_beta" \in DOMAIN result /\ Len(holdings) = 3

\* C16: with at least 100 observations, a positive total_value, num_days >= 1
\* and confidence_level > 0.5, each of the four reported VaR estimates is
\* at most 0.
CE_C16_VaRNonPositive ==
  (op = "portfolio" /\ ppc = "returned" /\ rows >= 100 /\ total_value > 0
     /\ request.num_days >= 1 /\ request.confidence_level > 500) =>
    \A m \in VaRMethods : result.VaR[m] <= 0

AtMin == {i \in 1..Len(final_prices) : final_prices[i] = MinPrice(final_prices)}
AtMax == {i \in 1..Len(final_prices) : final_prices[i] = MaxPrice(final_prices)}

\* C17 as stated: the returned P(min) is the number of terminal prices
\* within 5 % of the minimum over num_simulations and at least the share of
\* paths exactly at the minimum, and likewise P(max).
CE_C17_ExactFractions ==
  statistics.returned =>
    /\ statistics.p_min * Len(final_prices) = 10000 * Cardinality(NearMin(final_prices))
    /\ statistics.p_min * Len(final_prices) >= 10000 * Cardinality(AtMin)
    /\ statistics.p_max * Len(final_prices) = 10000 * Cardinality(NearMax(final_prices))
    /\ statistics.p_max * Len(final_prices) >= 10000 * Cardinality(AtMax)

\* C17, amended: P(min) and P(max) lie in [0, 1]; each is the count of
\* prices within 5 % of the extreme over num_simulations, rounded to four
\* decimals, hence within half a ten-thousandth of that share and at least
\* the equally rounded share of paths exactly at the extreme; and
\* min <= mean <= max.
Thm_C17_StatisticsBounds ==
  statistics.returned =>
    LET n == Len(final_prices)
    IN  /\ statistics.p_min \in 0..10000 /\ statistics.p_max \in 0..10000
        /\ 2 * statistics.p_min * n - 20000 * Cardinality(NearMin(final_prices))
             \in (0 - n)..n
        /\ 2 * statistics.p_max * n - 20000 * Cardinality(NearMax(final_prices))
             \in (0 - n)..n
        /\ statistics.p_min >= ScaledDiv(Cardinality(AtMin), n, 4)
        /\ statistics.p_max >= ScaledDiv(Cardinality(AtMax), n, 4)
        /\ AtMin \subseteq NearMin(final_prices)
        /\ AtMax \subseteq NearMax(final_prices)
        /\ statistics.min <= statistics.mean
        /\ statistics.mean <= statistics.max

Wit_C17_ThirdsRoundDown ==
  /\ statistics.returned /\ Len(final_prices) = 3
  /\ Cardinality(NearMin(final_prices)) = 2 /\ Cardinality(AtMin) = 1
  /\ statistics.p_min = 6667 /\ statistics.p_max = 3333

\* C18: the optimized and the plain run-all end in the same shape for the
\* same behaviour of the data source, a symbol without data included: both
\* return a map with one key per catalogue entry (run_all_simulations always
\* does), and without data every key holds an error.
CE_C18_SameOutcomeShape ==
  (op \in {"optimized", "parallel"} /\ bpc \in {"returned", "raised"}) =>
    /\ bpc = "returned"
    /\ tasks # {}
    /\ DOMAIN results = {NameOf(t) : t \in tasks}
    /\ (op = "optimized" /\ hist = None) =>
         \A t \in tasks : results[NameOf(t)] = ErrorResult(Message(t, "fetch"))

\* C19: at every endpoint a request that passes validation for a symbol
\* without market data is answered with 404.
CE_C19_NoDataIsNotFound ==
  (op = "api" /\ apc = "responded" /\ serviceCalls > 0 /\ ~api.has_data) =>
    status = 404

\* C20: at every endpoint a request is accepted exactly when its parameters
\* are in range, and a request out of range is rejected before any service
\* function is invoked.
\* The ranges are num_simulations from 100 (simulation endpoints) or 1000
\* (portfolio endpoints) to 100000, num_days from 1 to 1000 or 252, and
\* confidence_level from 0.90 to 0.999.
CE_C20_BoundsAtTheBoundary ==
  LET portfolio == api.endpoint \in PortfolioEndpoints
      inRange ==
        /\ api.num_simulations >= (IF portfolio THEN 1000 ELSE 100)
        /\ api.num_simulations <= 100000
        /\ api.num_days >= 1
        /\ api.num_days <= (IF portfolio THEN 252 ELSE 1000)
        /\ api.confidence_level >= 900 /\ api.confidence_level <= 999
  IN  (op = "api" /\ apc \in {"accepted", "responded"}) =>
        /\ inRange <=> (apc = "accepted" \/ serviceCalls > 0)
        /\ ~inRange => serviceCalls = 0

\* The callers between the failed check and the end of the write.
InFetchAndWrite == {c \in Callers : vpc[c] \in {"fetching", "fetched", "wrote_value"}}

\* C21: at most one caller at a time is in the fetch-and-write section of
\* get_vix_value, and callers that start together on an empty cache cause
\* one write of value and last_updated.
CE_C21_SingleWriter ==
  /\ Cardinality(InFetchAndWrite) <= 1
  /\ clock = 0 => cacheWrites <= 1

\* C22: a call that finds a value updated less than 24 hours before its own
\* `now` returns the cached value, fetches nothing and leaves the cache as it
\* is; a call on an empty cache or 24 hours or more after the update goes
\* upstream, and on success stores the fetched value and its own `now`.
Thm_C22_TwentyFourHourTTL ==
  [][\A c \in Callers :
       /\ vpc[c] = "entered" => vpc'[c] \in {"entered", "hit", "fetching"}
       /\ (vpc[c] = "entered" /\ vpc'[c] = "hit") =>
            /\ vix_cache.value # None /\ vix_cache.last_updated.set
            /\ vnow[c] - vix_cache.last_updated.at < 24
            /\ vix_cache' = vix_cache
            /\ upstreamFetches' = upstreamFetches
       /\ (vpc[c] = "entered" /\ vpc'[c] = "fetching") =>
            \/ vix_cache.value = None
            \/ ~vix_cache.last_updated.set
            \/ vnow[c] - vix_cache.last_updated.at >= 24
       /\ vpc[c] = "hit" => vpc'[c] \in {"hit", "idle"}
       /\ (vpc[c] = "hit" /\ vpc'[c] = "idle") =>
            /\ vret'[c] = vix_cache.value /\ vret'[c] # None
            /\ vix_cache' = vix_cache
            /\ upstreamFetches' = upstreamFetches
       /\ (vpc[c] = "fetching" /\ vpc'[c] # "fetching") =>
            upstreamFetches' = upstreamFetches + 1
       /\ (vpc[c] = "fetched" /\ vpc'[c] = "wrote_value") =>
            vix_cache'.value = latest_vix[c]
       /\ (vpc[c] = "wrote_value" /\ vpc'[c] = "idle") =>
            /\ vix_cache'.last_updated = UpdatedAt(vnow[c])
            /\ vret'[c] = latest_vix[c]]_vars

\* A call made exactly 24 hours after the update it found has fetched and
\* stored its own time.
Wit_C22_ExactlyExpired ==
  \E c \in Callers :
    /\ vpc[c] = "idle" /\ vret[c] \in UpstreamVix
    /\ vseen[c].value # None /\ vseen[c].last_updated.set
    /\ vnow[c] - vseen[c].last_updated.at = 24
    /\ vix_cache.last_updated = UpdatedAt(vnow[c])

\* C30: a call whose upstream fetch fails returns None and writes neither
\* field, also when an expired value is cached; whenever no call is in
\* progress value and last_updated are both unset or both set, and from one
\* such state to the next last_updated does not decrease.
Thm_C30_FailedFetchLeavesCache ==
  /\ [][\A c \in Callers :
          (vpc[c] = "fetching" /\ vpc'[c] = "idle") =>
            /\ vret'[c] = None
            /\ vix_cache' = vix_cache]_vars
  /\ [](AllIdle(vpc) =>
          /\ vix_cache.value = None <=> ~vix_cache.last_updated.set
          /\ quietUpdated = vix_cache.last_updated)
  /\ [][quietUpdated.set =>
          /\ quietUpdated'.set
          /\ quietUpdated'.at >= quietUpdated.at]_vars

\* A fetch failed while an expired value was cached: the call returned None
\* and the cache still holds the old value and time.
Wit_C30_FailedOnExpired ==
  \E c \in Callers :
    /\ vpc[c] = "idle" /\ vret[c] = None
    /\ vseen[c].value # None /\ vseen[c].last_updated.set
    /\ vix_cache = vseen[c]

\* The sum of the step exponents of path p up to day d, in exact arithmetic.
RECURSIVE LogReturn(_, _)
LogReturn(d, p) ==
  IF d = 0 THEN 0 ELSE LogReturn(d - 1, p) + simulator.exponents[d][p]
Simulated == op = "paths" /\ price_paths # <<>>

\* C23 as stated: for every shock matrix the matrix has num_days rows of
\* num_simulations prices and every price is > 0.
CE_C23_EveryPricePositive ==
  Simulated =>
    /\ Len(price_paths) = simulator.num_days
    /\ \A d \in 1..Len(price_paths) :
         /\ Len(price_paths[d]) = simulator.num_simulations
         /\ \A p \in 1..Len(price_paths[d]) : ~price_paths[d][p].zero

\* C23: the matrix has exactly num_days rows of num_simulations prices; row d
\* is last_price times the product of the first d step returns, and a price
\* is > 0 as long as that product is a positive double: it is 0.0 once the
\* step exponents of the path sum below the range of a double. The bootstrap
\* over a history of positive closes only yields prices > 0.
Thm_C23_ShapeAndPositiveInRange ==
  Simulated =>
    /\ Len(price_paths) = simulator.num_days
    /\ \A d \in 1..Len(price_paths) :
         /\ Len(price_paths[d]) = simulator.num_simulations
         /\ \A p \in 1..Len(price_paths[d]) :
              /\ (\A e \in 1..d : LogReturn(e, p) >= MinExponent) =>
                   price_paths[d][p] =
                     Positive(simulator.last_price + LogReturn(d, p))
              /\ LogReturn(d, p) + simulator.last_price < MinExponent =>
                   price_paths[d][p] = Zero
              /\ simulator.kind = "historical" => ~price_paths[d][p].zero

\* A full matrix of MaxDays rows and several paths, all prices positive.
Wit_C23_FullMatrixPositive ==
  /\ Simulated
  /\ simulator.kind = "simulate_paths"
  /\ simulator.num_days = MaxDays /\ simulator.num_simulations > 1
  /\ \A d \in 1..Len(price_paths) :
       \A p \in 1..Len(price_paths[d]) : ~price_paths[d][p].zero

\* The report is built; the target of entry i; the paths that cross it on at
\* least one simulated day; the first day index on which path p does.
Reported == op = "touch" /\ final_inference # <<>>
TargetOf(i) == final_inference[i].target_price
Touches(i, d, p) ==
  IF TargetOf(i) < touch.last_price
    THEN touch.simulation_array[d][p] <= TargetOf(i)
    ELSE touch.simulation_array[d][p] >= TargetOf(i)
Crossing(i) ==
  {p \in 1..touch.num_simulations :
     \E d \in 1..touch.num_days : Touches(i, d, p)}
FirstHit(i, p) ==
  (CHOOSE d \in 1..touch.num_days :
     /\ Touches(i, d, p)
     /\ \A e \in 1..(d - 1) : ~Touches(i, e, p)) - 1
HitDays(i) == Sum([p \in Crossing(i) |-> FirstHit(i, p)], Crossing(i))
\* probability >= 20 and mean first-hit day <= 0.7 * num_days, in integers.
Likely(i) == 100 * Cardinality(Crossing(i)) >= 20 * touch.num_simulations
Early(i) == 10 * HitDays(i) <= 7 * touch.num_days * Cardinality(Crossing(i))

\* C24: for each of the six targets, without a crossing path there is no
\* suffix and average_day_to_hit is null; otherwise the suffix is the average
\* day when probability >= 20 % and the mean first-hit day is at most 0.7 *
\* num_days, "rarely occurs" when probability < 20 %, "occurs late"
\* in the remaining case; average_day_to_hit is non-null exactly in the first.
Thm_C24_NarrativeTiers ==
  Reported =>
    /\ Len(final_inference) = 6
    /\ \A i \in 1..Len(final_inference) :
         LET e == final_inference[i] IN
           /\ Crossing(i) = {} =>
                e.suffix = "none" /\ ~e.average_day_to_hit.set
           /\ Crossing(i) # {} =>
                /\ e.suffix \in {"average", "rarely", "late"}
                /\ e.suffix = "average" <=> (Likely(i) /\ Early(i))
                /\ e.suffix = "rarely" <=> ~Likely(i)
                /\ e.suffix = "late" <=> (Likely(i) /\ ~Early(i))
           /\ e.average_day_to_hit.set <=> e.suffix = "average"

\* One report in which a target is rarely touched, one is touched late and
\* one has its average day stated.
Wit_C24_ThreeTiersInOneReport ==
  /\ Reported
  /\ \E i, j, k \in 1..Len(final_inference) :
       /\ final_inference[i].suffix = "rarely"
       /\ final_inference[j].suffix = "late"
       /\ final_inference[k].suffix = "average"
       /\ final_inference[k].average_day_to_hit.day > 0

\* C25 as stated: probability_percent is exactly 100 * crossing paths /
\* num_simulations (here in hundredths of a percent).
CE_C25_ExactProbability ==
  Reported =>
    \A i \in 1..Len(final_inference) :
      final_inference[i].probability_percent * touch.num_simulations
        = 10000 * Cardinality(Crossing(i))

\* C25: a path crosses a target iff on some simulated day its price is <= the
\* target (target below last_price) or >= it (otherwise); probability_percent
\* is 100 * crossing paths / num_simulations rounded to two decimals; the
\* average day is the mean, over the crossing paths only, of the smallest day
\* index at which each crosses.
Thm_C25_CrossingAndFirstHit ==
  Reported =>
    \A i \in 1..Len(final_inference) :
      LET e == final_inference[i] IN
        /\ e.probability_percent =
             RoundDiv(10000 * Cardinality(Crossing(i)), touch.num_simulations)
        /\ e.direction = "downside" <=> TargetOf(i) < touch.last_price
        /\ e.suffix = "none" <=> Crossing(i) = {}
        /\ e.average_day_to_hit.set =>
             e.average_day_to_hit.day =
               RoundDiv(HitDays(i), Cardinality(Crossing(i)))
        /\ e.suffix = "late" => ~Early(i)

\* One of three paths lands exactly on the -10 % target on the first day, the
\* other two never reach it: 33.33 %, average day 0.
Wit_C25_OneOfThreeTouches ==
  /\ Reported
  /\ touch.num_simulations = 3 /\ touch.num_days > 1
  /\ Cardinality(Crossing(1)) = 1
  /\ \E p \in Crossing(1) : touch.simulation_array[1][p] = TargetOf(1)
  /\ final_inference[1].probability_percent = 3333
  /\ final_inference[1].average_day_to_hit = Day(0)

ParametricIds == {t \in TaskIds : Parametric(t)}

\* C26: the shock generator of a parametric entry depends on the
\* distribution and on whether the skew is zero, and is the same for the
\* three families: normal plain -> standard normal; normal skewed ->
\* z - skew |z| with skew -0.1; t plain -> Student-t with the nu of the fit,
\* 10 without one; t skewed and GED skewed -> skew-normal with -2 and -1.5;
\* GED plain -> standard normal.
ShockTable ==
  \A t \in ParametricIds, params \in FitParams :
     LET e == Catalogue[t]
         g == Shocks(e.dist, e.skew, params)
     IN  /\ (e.dist = "normal" /\ e.skew = 0) =>
            g = [law |-> "normal", skew |-> 0, df |-> 0]
         /\ (e.dist = "normal" /\ e.skew # 0) =>
            g = [law |-> "normal_minus_skew_abs", skew |-> -1, df |-> 0]
         /\ (e.dist = "t" /\ e.skew = 0) =>
            g = [law |-> "student_t", skew |-> 0,
               df |-> IF params = [omega |-> 1] THEN 10 ELSE params.nu]
         /\ (e.dist = "t" /\ e.skew # 0) =>
            g = [law |-> "skewnorm", skew |-> -20, df |-> 0]
         /\ (e.dist = "ged" /\ e.skew = 0) =>
            g = [law |-> "normal", skew |-> 0, df |-> 0]
         /\ (e.dist = "ged" /\ e.skew # 0) =>
            g = [law |-> "skewnorm", skew |-> -15, df |-> 0]
         /\ \A u \in ParametricIds :
            (Catalogue[u].dist = e.dist
               /\ (Catalogue[u].skew = 0 <=> e.skew = 0)) =>
              Shocks(Catalogue[u].dist, Catalogue[u].skew, params) = g

\* C26, in a run: the table above holds, and every parametric task that
\* simulated drew its shocks from the generator of its distribution and
\* skewness.
Thm_C26_ShockGeneratorTable ==
  /\ ShockTable
  /\ \A t \in tasks \cap ParametricIds :
       (op = "optimized" /\ outcome[t] # Pending /\ outcome[t].ok) =>
         outcome[t].value.shocks =
           (IF Catalogue[t].dist = "t"
              THEN (IF Catalogue[t].skew = 0 THEN "student_t" ELSE "skewnorm")
            ELSE IF Catalogue[t].skew = 0 THEN "normal"
            ELSE IF Catalogue[t].dist = "ged" THEN "skewnorm"
            ELSE "normal_minus_skew_abs")

\* A plain GED entry and a skewed entry of another family have both drawn
\* their shocks in one run.
Wit_C26_GedPlainDrewNormal ==
  /\ op = "optimized"
  /\ \E t, u \in tasks \cap ParametricIds :
       /\ Catalogue[t].dist = "ged" /\ Catalogue[t].skew = 0
       /\ Catalogue[u].skew # 0 /\ Catalogue[u].runner # Catalogue[t].runner
       /\ outcome[t] # Pending /\ outcome[t].ok
       /\ outcome[t].value.shocks = "normal"
       /\ outcome[u] # Pending /\ outcome[u].ok

\* C27: the cache key is fixed by (family, distribution, leverage order): a
\* plain entry and the skewed entry of the same family and distribution have
\* one key, entries that differ in family or distribution have different
\* keys, the 18 parametric entries have 9 keys, and fitted_models holds at
\* most 9 entries, each a fit made for the key it is stored under.
CacheKeys == {KeyOf(t) : t \in ParametricIds}
KeyIgnoresSkew ==
  \A t, u \in ParametricIds :
    KeyOf(t) = KeyOf(u) <=>
      /\ Catalogue[t].runner = Catalogue[u].runner
      /\ Catalogue[t].dist = Catalogue[u].dist

\* C27, in a run: the keys are as above, and in every state of a batch
\* fitted_models holds at most 9 entries, each under the key of its fit.
Thm_C27_CacheKeyIgnoresSkew ==
  /\ KeyIgnoresSkew
  /\ Cardinality(CacheKeys) = 9
  /\ DOMAIN fitted_models \subseteq CacheKeys
  /\ \A k \in DOMAIN fitted_models : fitted_models[k].key = k
  /\ Cardinality(DOMAIN fitted_models) <= 9

\* A plain and a skewed entry of one family and distribution both ran with a
\* fit, and the cache holds the one entry of their key.
Wit_C27_PlainAndSkewedShareEntry ==
  /\ op = "optimized"
  /\ \E t, u \in tasks :
       /\ t # u /\ Parametric(t) /\ Parametric(u)
       /\ Catalogue[t].skew = 0 /\ Catalogue[u].skew # 0
       /\ tfit[t] # NoFit /\ tfit[u] # NoFit
       /\ DOMAIN fitted_models = {KeyOf(t)}

\* C28: no task of run_all_simulations_optimized is submitted or takes a step
\* before _fetch_data has set hist; when _fetch_data raises the call raises
\* with no task submitted and hist, log_returns, last_price, vix_value still
\* None; the call returns only when every submitted task is collected, and
\* with tasks that terminate a call that reached the pool does return.
Thm_C28_BatchStateMachine ==
  /\ []((op = "optimized" /\ tasks # {}) => hist # None)
  /\ [][(bpc = "idle" /\ bpc' = "raised") =>
          /\ exc' = NoDataError /\ tasks' = {}
          /\ hist' = None /\ log_returns' = None
          /\ last_price' = None /\ vix_value' = None]_vars
  /\ [][(bpc = "idle" /\ bpc' = "pool") =>
          /\ hist' # None /\ fetchCalls' = 1
          /\ \A t \in tasks' : tpc'[t] = "queued"]_vars
  /\ []((op = "optimized" /\ bpc = "returned") =>
          /\ \A t \in tasks : tpc[t] = "collected"
          /\ DOMAIN results = {NameOf(t) : t \in tasks})
  /\ (op = "optimized" /\ bpc = "pool") ~> (bpc = "returned")

\* A run with more tasks than workers has returned.
Wit_C28_ReturnedWithQueueing ==
  /\ op = "optimized" /\ bpc = "returned"
  /\ Cardinality(tasks) > max_workers

\* C29: for a series of N >= 100 returns, a confidence level from 0.90 to
\* 0.999, a positive total_value and num_days >= 1, the index
\* floor((1 - confidence_level) N) and the index the code computes lie in
\* 0..N-1, sorted_returns[var_index] does not raise, at least one return is
\* at or below the threshold, and the reported expected_shortfall is at
\* most the reported historical VaR.
Thm_C29_ShortfallWithinVar ==
  shortfall.called =>
    LET n == Count(shortfall.portfolio_returns, Kinds)
    IN  /\ ((1000 - shortfall.confidence_level) * n) \div 1000 \in 0..(n - 1)
        /\ ~shortfall.raised
        /\ shortfall.computed =>
             /\ shortfall.var_index \in 0..(n - 1)
             /\ shortfall.selected > 0
             /\ shortfall.var_results.expected_shortfall
                  <= shortfall.var_results.historical

\* 100 returns at confidence 0.90: the code's index is 9, the nine lowest
\* returns lie below the threshold, and the shortfall is strictly below the
\* historical VaR.
Wit_C29_TenthOfHundred ==
  /\ shortfall.computed
  /\ shortfall.confidence_level = 900
  /\ Count(shortfall.portfolio_returns, Kinds) = MinObservations
  /\ shortfall.var_index = 9
  /\ shortfall.selected = MinObservations
  /\ shortfall.var_results.expected_shortfall
       < shortfall.var_results.historical

====
